---------------------------- MODULE Spec2Model ----------------------------
(***************************************************************************)
(* Model of the CodeSync Diagram analysis engine.                          *)
(*                                                                         *)
(*   - ProjectAnalyzer (projectAnalyzer.ts): batched parallel directory    *)
(*     scan, batched parallel dependency extraction, deduplication,        *)
(*     usage / reference counts, layer assignment.                         *)
(*   - diagram.js graph analyses: findCircularDependencies,                *)
(*     showCriticalPath, calculateComplexity; the file preview editor.     *)
(*   - analyzeProjectCommand and the webview provider: progress reports,   *)
(*     transformProjectData, getFileContent, saveFileContent.              *)
(*                                                                         *)
(* Specifications: Spec (an undisturbed analysis), SpecFail (failing       *)
(* readdir / readFile / extractor), SpecStat (failing stat), SpecCancel (a *)
(* host asking for cancellation), SpecRerun (analyzeProject called again   *)
(* on one analyzer), SpecWide and SpecBig (workspaces wider than a scan    *)
(* batch and larger than an extraction batch), SpecVariants (specifiers    *)
(* with several existing variants), SpecGraph (the webview's analyses of a *)
(* loaded graph), SpecCommand (the command from its first report to the    *)
(* report of the webview), SpecEditor (the preview editor).                *)
(*                                                                         *)
(* Strings are sequences of one-character strings, so that startsWith,     *)
(* includes, toLowerCase, extname, join and normalize are computed the way *)
(* the code computes them.                                                 *)
(***************************************************************************)
EXTENDS Naturals, Integers, Sequences, FiniteSets, TLC

(***************************************************************************)
(* String primitives (JavaScript String.prototype)                         *)
(***************************************************************************)
EmptyStr == << >>

Slash == "/"

Dot == "."

StartsWith(s, p) ==
    /\ Len(p) <= Len(s)
    /\ SubSeq(s, 1, Len(p)) = p

Includes(s, p) ==
    \E i \in 1..(Len(s) + 1) :
        /\ i + Len(p) - 1 <= Len(s)
        /\ SubSeq(s, i, i + Len(p) - 1) = p

UpperChars == << "A", "B", "C", "D", "E", "F", "G", "H", "I", "J", "K", "L", "M",
                 "N", "O", "P", "Q", "R", "S", "T", "U", "V", "W", "X", "Y", "Z" >>

LowerChars == << "a", "b", "c", "d", "e", "f", "g", "h", "i", "j", "k", "l", "m",
                 "n", "o", "p", "q", "r", "s", "t", "u", "v", "w", "x", "y", "z" >>

LowerOfChar(c) ==
    IF \E i \in 1..Len(UpperChars) : UpperChars[i] = c
    THEN LowerChars[CHOOSE i \in 1..Len(UpperChars) : UpperChars[i] = c]
    ELSE c

ToLowerCase(s) == [i \in 1..Len(s) |-> LowerOfChar(s[i])]

\* index of the last occurrence of character c in s, 0 when there is none
LastIndexOf(s, c) ==
    IF \E i \in 1..Len(s) : s[i] = c
    THEN CHOOSE i \in 1..Len(s) : s[i] = c /\ \A j \in (i + 1)..Len(s) : s[j] # c
    ELSE 0

\* index of the first occurrence of character c in s, 0 when there is none
IndexOf(s, c) ==
    IF \E i \in 1..Len(s) : s[i] = c
    THEN CHOOSE i \in 1..Len(s) : s[i] = c /\ \A j \in 1..(i - 1) : s[j] # c
    ELSE 0

RECURSIVE Split(_, _)
Split(s, c) ==
    IF IndexOf(s, c) = 0 THEN << s >>
    ELSE << SubSeq(s, 1, IndexOf(s, c) - 1) >>
             \o Split(SubSeq(s, IndexOf(s, c) + 1, Len(s)), c)

RECURSIVE JoinWith(_, _)
JoinWith(parts, sep) ==
    IF Len(parts) = 0 THEN EmptyStr
    ELSE IF Len(parts) = 1 THEN parts[1]
    ELSE parts[1] \o sep \o JoinWith(Tail(parts), sep)

(***************************************************************************)
(* Node's path module, POSIX flavour (separators are already '/')          *)
(***************************************************************************)
Basename(p) == SubSeq(p, LastIndexOf(p, Slash) + 1, Len(p))

ExtName(p) ==
    LET base == Basename(p)
        d    == LastIndexOf(base, Dot)
    IN  IF d = 0 \/ d = 1 \/ base = << Dot, Dot >> THEN EmptyStr
        ELSE SubSeq(base, d, Len(base))

Dirname(p) ==
    LET i == LastIndexOf(p, Slash)
    IN  IF i = 0 THEN << Dot >>
        ELSE IF i = 1 THEN << Slash >>
        ELSE SubSeq(p, 1, i - 1)

\* normalizeString: resolves '.' and '..' segments
RECURSIVE NormalizeSegments(_, _, _)
NormalizeSegments(segs, acc, allowAboveRoot) ==
    IF Len(segs) = 0 THEN acc
    ELSE LET s == Head(segs) IN
         IF s = EmptyStr \/ s = << Dot >>
         THEN NormalizeSegments(Tail(segs), acc, allowAboveRoot)
         ELSE IF s = << Dot, Dot >>
         THEN IF Len(acc) > 0 /\ acc[Len(acc)] # << Dot, Dot >>
              THEN NormalizeSegments(Tail(segs), SubSeq(acc, 1, Len(acc) - 1), allowAboveRoot)
              ELSE IF allowAboveRoot
              THEN NormalizeSegments(Tail(segs), Append(acc, s), allowAboveRoot)
              ELSE NormalizeSegments(Tail(segs), acc, allowAboveRoot)
         ELSE NormalizeSegments(Tail(segs), Append(acc, s), allowAboveRoot)

Normalize(p) ==
    IF Len(p) = 0 THEN << Dot >>
    ELSE LET isAbsolute  == p[1] = Slash
             trailingSep == p[Len(p)] = Slash
             body        == JoinWith(NormalizeSegments(Split(p, Slash), << >>, ~isAbsolute),
                                     << Slash >>)
             body2       == IF Len(body) = 0 /\ ~isAbsolute THEN << Dot >> ELSE body
             body3       == IF Len(body) > 0 /\ trailingSep THEN body2 \o << Slash >> ELSE body2
         IN  IF isAbsolute THEN << Slash >> \o body3 ELSE body3

\* path.join(a, b): the non-empty arguments joined by '/', then normalized
PathJoin(a, b) ==
    IF Len(a) = 0 /\ Len(b) = 0 THEN << Dot >>
    ELSE IF Len(a) = 0 THEN Normalize(b)
    ELSE IF Len(b) = 0 THEN Normalize(a)
    ELSE Normalize(a \o << Slash >> \o b)

(***************************************************************************)
(* ProjectAnalyzer: configuration                                          *)
(***************************************************************************)
supportedExtensions ==
    { << ".", "j", "s" >>,
      << ".", "j", "s", "x" >>,
      << ".", "t", "s" >>,
      << ".", "t", "s", "x" >>,
      << ".", "m", "j", "s" >>,
      << ".", "c", "j", "s" >>,
      << ".", "h", "t", "m", "l" >>,
      << ".", "h", "t", "m" >>,
      << ".", "c", "s", "s" >>,
      << ".", "s", "c", "s", "s" >>,
      << ".", "s", "a", "s", "s" >>,
      << ".", "l", "e", "s", "s" >>,
      << ".", "v", "u", "e" >>,
      << ".", "s", "v", "e", "l", "t", "e" >>,
      << ".", "a", "s", "t", "r", "o" >>,
      << ".", "p", "h", "p" >>,
      << ".", "p", "y" >>,
      << ".", "j", "a", "v", "a" >>,
      << ".", "c", "s" >>,
      << ".", "c", "p", "p" >>,
      << ".", "c" >>,
      << ".", "h" >>,
      << ".", "h", "p", "p" >>,
      << ".", "g", "o" >>,
      << ".", "r", "s" >>,
      << ".", "r", "b" >>,
      << ".", "s", "w", "i", "f", "t" >>,
      << ".", "k", "t" >>,
      << ".", "s", "c", "a", "l", "a" >>,
      << ".", "s", "q", "l" >>,
      << ".", "g", "r", "a", "p", "h", "q", "l" >>,
      << ".", "g", "q", "l" >>,
      << ".", "j", "s", "o", "n" >>,
      << ".", "x", "m", "l" >>,
      << ".", "y", "a", "m", "l" >>,
      << ".", "y", "m", "l" >>,
      << ".", "t", "o", "m", "l" >>,
      << ".", "i", "n", "i" >>,
      << ".", "e", "n", "v" >>,
      << ".", "p", "r", "o", "p", "e", "r", "t", "i", "e", "s" >>,
      << ".", "c", "o", "n", "f" >>,
      << ".", "c", "o", "n", "f", "i", "g" >>,
      << ".", "m", "d" >>,
      << ".", "m", "d", "x" >>,
      << ".", "r", "s", "t" >>,
      << ".", "t", "x", "t" >>,
      << ".", "s", "h" >>,
      << ".", "b", "a", "s", "h" >>,
      << ".", "z", "s", "h" >>,
      << ".", "p", "s", "1" >>,
      << ".", "b", "a", "t" >>,
      << ".", "c", "m", "d" >>,
      << ".", "r" >>,
      << ".", "m" >>,
      << ".", "d", "a", "r", "t" >>,
      << ".", "l", "u", "a" >>,
      << ".", "p", "l" >>,
      << ".", "e", "x" >>,
      << ".", "e", "x", "s" >> }

ignoreDirs ==
    { << "n", "o", "d", "e", "_", "m", "o", "d", "u", "l", "e", "s" >>,
      << ".", "g", "i", "t" >>,
      << "d", "i", "s", "t" >>,
      << "b", "u", "i", "l", "d" >>,
      << "o", "u", "t" >>,
      << ".", "v", "s", "c", "o", "d", "e" >>,
      << ".", "i", "d", "e", "a" >>,
      << "_", "_", "p", "y", "c", "a", "c", "h", "e", "_", "_" >>,
      << "v", "e", "n", "v" >>,
      << ".", "e", "n", "v" >>,
      << "c", "o", "v", "e", "r", "a", "g", "e" >>,
      << ".", "n", "y", "c", "_", "o", "u", "t", "p", "u", "t" >>,
      << ".", "c", "a", "c", "h", "e" >>,
      << "t", "m", "p" >>,
      << "t", "e", "m", "p" >> }

\* const BATCH_SIZE = 10 of buildFileTreeParallel
SCAN_BATCH_SIZE == 10

\* const BATCH_SIZE = 20 of analyzeDependenciesParallel
DEPS_BATCH_SIZE == 20

(***************************************************************************)
(* String.prototype.localeCompare on the characters the model uses:        *)
(* punctuation before digits before letters; letters compare without case  *)
(* first, and on a tie the lower-case letter comes first.                  *)
(***************************************************************************)
CollationOrder ==
    << "_", "-", ".", "0", "1", "2", "3", "4", "5", "6", "7", "8", "9" >> \o LowerChars

CollationRank(c) ==
    LET l == LowerOfChar(c)
    IN  IF \E i \in 1..Len(CollationOrder) : CollationOrder[i] = l
        THEN CHOOSE i \in 1..Len(CollationOrder) : CollationOrder[i] = l
        ELSE 0

IsUpperChar(c) == \E i \in 1..Len(UpperChars) : UpperChars[i] = c

RECURSIVE ComparePrimary(_, _)
ComparePrimary(a, b) ==
    IF Len(a) = 0 /\ Len(b) = 0 THEN 0
    ELSE IF Len(a) = 0 THEN -1
    ELSE IF Len(b) = 0 THEN 1
    ELSE IF CollationRank(a[1]) < CollationRank(b[1]) THEN -1
    ELSE IF CollationRank(a[1]) > CollationRank(b[1]) THEN 1
    ELSE ComparePrimary(Tail(a), Tail(b))

RECURSIVE CompareCase(_, _)
CompareCase(a, b) ==
    IF Len(a) = 0 \/ Len(b) = 0 THEN 0
    ELSE IF ~IsUpperChar(a[1]) /\ IsUpperChar(b[1]) THEN -1
    ELSE IF IsUpperChar(a[1]) /\ ~IsUpperChar(b[1]) THEN 1
    ELSE CompareCase(Tail(a), Tail(b))

LocaleCompare(a, b) ==
    IF ComparePrimary(a, b) # 0 THEN ComparePrimary(a, b) ELSE CompareCase(a, b)

(***************************************************************************)
(* FileInfo records of the tree                                            *)
(***************************************************************************)
FileItem(relPath, name) ==
    [ path        |-> relPath,
      name        |-> name,
      extension   |-> ExtName(name),
      isDirectory |-> FALSE,
      children    |-> << >> ]

DirItem(relPath, name, children) ==
    [ path        |-> relPath,
      name        |-> name,
      extension   |-> EmptyStr,
      isDirectory |-> TRUE,
      children    |-> children ]

\* the comparator of items.sort(...)
CompareItems(a, b) ==
    IF a.isDirectory /\ ~b.isDirectory THEN -1
    ELSE IF ~a.isDirectory /\ b.isDirectory THEN 1
    ELSE LocaleCompare(a.name, b.name)

\* Array.prototype.sort is stable: x goes behind every element that does not
\* compare greater than it
InsertItem(sorted, x) ==
    LET before == { i \in 1..Len(sorted) : CompareItems(sorted[i], x) <= 0 }
        k      == IF before = {} THEN 0
                  ELSE CHOOSE i \in before : \A j \in before : j <= i
    IN  SubSeq(sorted, 1, k) \o << x >> \o SubSeq(sorted, k + 1, Len(sorted))

RECURSIVE SortFrom(_, _)
SortFrom(items, sorted) ==
    IF Len(items) = 0 THEN sorted
    ELSE SortFrom(Tail(items), InsertItem(sorted, Head(items)))

\* children returned in the order the batches pushed them
UnsortedItems(items) == items

SortItems(items) == SortFrom(items, << >>)

\* directory tests that leave out the hidden-name half, or both halves
IgnoreListOnly(name) == name \notin ignoreDirs

EveryDirectory(name) == TRUE

\* the directory test of buildFileTreeParallel
IsDescended(name) == name \notin ignoreDirs /\ ~StartsWith(name, << Dot >>)

RECURSIVE flattenFileTree(_)
flattenFileTree(tree) ==
    IF Len(tree) = 0 THEN << >>
    ELSE LET item == Head(tree)
             self == IF ~item.isDirectory /\ item.extension \in supportedExtensions
                     THEN << item >> ELSE << >>
             sub  == IF item.isDirectory THEN flattenFileTree(item.children) ELSE << >>
         IN  self \o sub \o flattenFileTree(Tail(tree))

(***************************************************************************)
(* File content.  The lexical recognition of the regular expressions is    *)
(* the input: a content is the sequence of the statements its text holds.  *)
(*   form "import"  : ES6 import,  arg = the captured specifier            *)
(*   form "require" : CommonJS require(...), arg = the captured specifier  *)
(*   form "dynamic" : import(...), arg = the captured specifier            *)
(*   form "db"      : text matched by database patterns; ms lists, per     *)
(*                    matching pattern, [pat, text] with text = match[0]   *)
(***************************************************************************)
Stmt(form, arg) == [form |-> form, arg |-> arg, ms |-> << >>]

DbStmt(ms) == [form |-> "db", arg |-> EmptyStr, ms |-> ms]

RECURSIVE SpecifiersOf(_, _)
SpecifiersOf(content, form) ==
    IF Len(content) = 0 THEN << >>
    ELSE (IF Head(content).form = form THEN << Head(content).arg >> ELSE << >>)
         \o SpecifiersOf(Tail(content), form)

\* allMatches: every match of importRegex, then of requireRegex, then of
\* dynamicImportRegex; match[1] of each
allMatches(content) ==
    SpecifiersOf(content, "import") \o SpecifiersOf(content, "require")
        \o SpecifiersOf(content, "dynamic")

T_import == << "i", "m", "p", "o", "r", "t" >>

T_database == << "d", "a", "t", "a", "b", "a", "s", "e" >>

MissingPrefix == << "[", "M", "i", "s", "s", "i", "n", "g", "]", " " >>

ExternalPrefix == << "[", "E", "x", "t", "e", "r", "n", "a", "l", "]", " " >>

DbPrefix == << "[", "D", "B", ":" >>

Dep(from, to, type) == [from |-> from, to |-> to, type |-> type]

resolveImportPath(fromPath, importPath) ==
    Normalize(PathJoin(Dirname(fromPath), importPath))

VariationSuffixes ==
    << << ".", "t", "s" >>,
       << ".", "j", "s" >>,
       << ".", "t", "s", "x" >>,
       << ".", "j", "s", "x" >>,
       << ".", "p", "y" >>,
       << ".", "j", "a", "v", "a" >>,
       << ".", "g", "o" >>,
       << ".", "p", "h", "p" >>,
       << ".", "h", "t", "m", "l" >>,
       << ".", "h", "t", "m" >>,
       << ".", "c", "s", "s" >>,
       << ".", "s", "c", "s", "s" >>,
       << ".", "s", "q", "l" >>,
       << "/", "i", "n", "d", "e", "x", ".", "t", "s" >>,
       << "/", "i", "n", "d", "e", "x", ".", "j", "s" >>,
       << "/", "i", "n", "d", "e", "x", ".", "t", "s", "x" >>,
       << "/", "i", "n", "d", "e", "x", ".", "j", "s", "x" >>,
       << "/", "i", "n", "d", "e", "x", ".", "p", "h", "p" >>,
       << "/", "i", "n", "d", "e", "x", ".", "h", "t", "m", "l" >> >>

getPathVariations(basePath) ==
    IF ExtName(basePath) = EmptyStr
    THEN << basePath >>
         \o [i \in 1..Len(VariationSuffixes) |-> basePath \o VariationSuffixes[i]]
    ELSE << basePath >>

\* a lookup in which the last variant that fileMap has wins
LastVariantIn(variations, fileMap) ==
    LET hits == { i \in 1..Len(variations) : variations[i] \in fileMap }
    IN  IF hits = {} THEN << >>
        ELSE << variations[CHOOSE i \in hits : \A j \in hits : i >= j] >>

\* the first variant that fileMap has, as a sequence of at most one element
FirstVariantIn(variations, fileMap) ==
    LET hits == { i \in 1..Len(variations) : variations[i] \in fileMap }
    IN  IF hits = {} THEN << >>
        ELSE << variations[CHOOSE i \in hits : \A j \in hits : i <= j] >>

\* an edge computation that takes only './' and '../' specifiers as relative
JSEdgeDotOnly(filePath, importPath, fileMap) ==
    IF StartsWith(importPath, << Dot >>)
    THEN LET resolvedPath == resolveImportPath(filePath, importPath)
             found        == FirstVariantIn(getPathVariations(resolvedPath), fileMap)
         IN  IF Len(found) > 0
             THEN Dep(filePath, found[1], T_import)
             ELSE Dep(filePath, MissingPrefix \o resolvedPath, T_import)
    ELSE Dep(filePath, ExternalPrefix \o importPath, T_import)

\* the body of the loop over allMatches: the one edge of one specifier
JSEdgeOf(filePath, importPath, fileMap) ==
    IF StartsWith(importPath, << Dot >>) \/ StartsWith(importPath, << Slash >>)
    THEN LET resolvedPath == resolveImportPath(filePath, importPath)
             found        == FirstVariantIn(getPathVariations(resolvedPath), fileMap)
         IN  IF Len(found) > 0
             THEN Dep(filePath, found[1], T_import)
             ELSE Dep(filePath, MissingPrefix \o resolvedPath, T_import)
    ELSE Dep(filePath, ExternalPrefix \o importPath, T_import)

extractJSDependencies(filePath, content, fileMap) ==
    LET m == allMatches(content)
    IN  [i \in 1..Len(m) |-> JSEdgeOf(filePath, m[i], fileMap)]

jsExtensions ==
    { << ".", "t", "s" >>, << ".", "j", "s" >>, << ".", "t", "s", "x" >>,
      << ".", "j", "s", "x" >>, << ".", "m", "j", "s" >>, << ".", "c", "j", "s" >> }

dbTypes ==
    << << "m", "y", "s", "q", "l" >>,
       << "p", "o", "s", "t", "g", "r", "e", "s" >>,
       << "m", "o", "n", "g", "o", "d", "b" >>,
       << "r", "e", "d", "i", "s" >>,
       << "s", "q", "l", "i", "t", "e" >>,
       << "d", "a", "t", "a", "b", "a", "s", "e" >> >>

\* the number of entries of dbPatterns
DbPatternCount == 11

\* the first type of dbTypes the lower-cased match includes; 'database' if none
DbTypeOf(connectionString) ==
    LET lower == ToLowerCase(connectionString)
        hits  == { i \in 1..Len(dbTypes) : Includes(lower, dbTypes[i]) }
    IN  IF hits = {} THEN T_database
        ELSE dbTypes[CHOOSE i \in hits : \A j \in hits : i <= j]

\* match[0] of every match of pattern p, in the order of the text
RECURSIVE PatternMatches(_, _)
PatternMatches(content, p) ==
    IF Len(content) = 0 THEN << >>
    ELSE LET ms == Head(content).ms
             own == { i \in 1..Len(ms) : ms[i].pat = p }
         IN  (IF own = {} THEN << >> ELSE << ms[CHOOSE i \in own : TRUE].text >>)
             \o PatternMatches(Tail(content), p)

RECURSIVE DbEdgesFrom(_, _, _)
DbEdgesFrom(filePath, content, p) ==
    IF p > DbPatternCount THEN << >>
    ELSE LET m == PatternMatches(content, p)
         IN  [i \in 1..Len(m) |->
                 Dep(filePath, DbPrefix \o DbTypeOf(m[i]) \o << "]" >>, T_database)]
             \o DbEdgesFrom(filePath, content, p + 1)

extractDatabaseConnections(filePath, content) == DbEdgesFrom(filePath, content, 1)

\* the edges one file contributes (the body of the try block of a batch task);
\* of the per-language extractors the model has the JS/TS one
FileDeps(file, content, fileMap) ==
    (IF file.extension \in jsExtensions
     THEN extractJSDependencies(file.path, content, fileMap)
     ELSE << >>)
    \o extractDatabaseConnections(file.path, content)

\* a key that leaves out the target
KeyWithoutTarget(dep) == dep.from \o << ":", ":" >> \o dep.type

DepKey(dep) == dep.from \o << ":", ":" >> \o dep.to \o << ":", ":" >> \o dep.type

\* Map insertion order: the first dependency of each key, in order
RECURSIVE DedupFrom(_, _, _)
DedupFrom(deps, keys, acc) ==
    IF Len(deps) = 0 THEN acc
    ELSE IF DepKey(Head(deps)) \in keys
    THEN DedupFrom(Tail(deps), keys, acc)
    ELSE DedupFrom(Tail(deps), keys \cup { DepKey(Head(deps)) }, Append(acc, Head(deps)))

\* every extracted edge kept
KeepAllDependencies(deps) == deps

deduplicateDependencies(deps) == DedupFrom(deps, {}, << >>)

\* uniqueDeps.forEach(dep => referenceCountMap.set(dep.to, (get(dep.to) || 0) + 1))
RECURSIVE referenceCountMap(_, _)
referenceCountMap(uniqueDeps, map) ==
    IF Len(uniqueDeps) = 0 THEN map
    ELSE LET to  == Head(uniqueDeps).to
             old == IF to \in DOMAIN map THEN map[to] ELSE 0
         IN  referenceCountMap(Tail(uniqueDeps),
                 [k \in DOMAIN map \cup { to } |-> IF k = to THEN old + 1 ELSE map[k]])

\* uniqueDeps.forEach(dep => usedFiles.add(dep.to))
usedFiles(uniqueDeps) == { uniqueDeps[i].to : i \in 1..Len(uniqueDeps) }

\* uniqueDeps.forEach(dep => filesWithDependencies.add(dep.from))
filesWithDependencies(uniqueDeps) == { uniqueDeps[i].from : i \in 1..Len(uniqueDeps) }

\* usage judged by incoming edges alone
IsReferenced(uniqueDeps, path) == path \in usedFiles(uniqueDeps)

ReferencedFlag(uniqueDeps, path) == IF path \in usedFiles(uniqueDeps) THEN 1 ELSE 0

\* file.isUsed = !(hasNoDependencies && notReferenced)
IsUsedValue(uniqueDeps, path) ==
    LET hasNoDependencies == path \notin filesWithDependencies(uniqueDeps)
        notReferenced     == path \notin usedFiles(uniqueDeps)
    IN  ~(hasNoDependencies /\ notReferenced)

\* file.referenceCount = referenceCountMap.get(file.path) || 0
ReferenceCountValue(uniqueDeps, path) ==
    LET map == referenceCountMap(uniqueDeps, << >>)
    IN  IF path \in DOMAIN map THEN map[path] ELSE 0

\* files.forEach(file => { file.isUsed = ...; file.referenceCount = ... })
SetUsage(fs, uniqueDeps) ==
    [i \in 1..Len(fs) |->
        [ path           |-> fs[i].path,
          name           |-> fs[i].name,
          extension      |-> fs[i].extension,
          isDirectory    |-> FALSE,
          children       |-> << >>,
          isUsed         |-> IsUsedValue(uniqueDeps, fs[i].path),
          referenceCount |-> ReferenceCountValue(uniqueDeps, fs[i].path) ]]

(***************************************************************************)
(* organizeLayers                                                          *)
(***************************************************************************)
\* pathLower.includes(...) of the presentation branch
PresentationWords ==
    { << "v", "i", "e", "w" >>,
      << "c", "o", "m", "p", "o", "n", "e", "n", "t" >>,
      << "u", "i" >>,
      << "p", "a", "g", "e" >>,
      << "s", "c", "r", "e", "e", "n" >>,
      << "w", "i", "d", "g", "e", "t" >>,
      << "t", "e", "m", "p", "l", "a", "t", "e" >>,
      << "l", "a", "y", "o", "u", "t" >> }

\* file.extension === ... of the presentation branch
PresentationExts ==
    { << ".", "v", "u", "e" >>,
      << ".", "s", "v", "e", "l", "t", "e" >>,
      << ".", "t", "s", "x" >>,
      << ".", "j", "s", "x" >>,
      << ".", "h", "t", "m", "l" >>,
      << ".", "h", "t", "m" >>,
      << ".", "c", "s", "s" >>,
      << ".", "s", "c", "s", "s" >>,
      << ".", "s", "a", "s", "s" >>,
      << ".", "l", "e", "s", "s" >> }

\* pathLower.includes(...) of the business branch
BusinessWords ==
    { << "s", "e", "r", "v", "i", "c", "e" >>,
      << "b", "u", "s", "i", "n", "e", "s", "s" >>,
      << "c", "o", "n", "t", "r", "o", "l", "l", "e", "r" >>,
      << "h", "a", "n", "d", "l", "e", "r" >>,
      << "m", "a", "n", "a", "g", "e", "r" >>,
      << "p", "r", "o", "v", "i", "d", "e", "r" >>,
      << "a", "p", "i" >>,
      << "r", "o", "u", "t", "e" >>,
      << "e", "n", "d", "p", "o", "i", "n", "t" >>,
      << "m", "i", "d", "d", "l", "e", "w", "a", "r", "e" >> }

\* pathLower.includes(...) of the data branch
DataWords ==
    { << "m", "o", "d", "e", "l" >>,
      << "d", "a", "t", "a" >>,
      << "r", "e", "p", "o", "s", "i", "t", "o", "r", "y" >>,
      << "e", "n", "t", "i", "t", "y" >>,
      << "s", "c", "h", "e", "m", "a" >>,
      << "d", "a", "t", "a", "b", "a", "s", "e" >>,
      << "m", "i", "g", "r", "a", "t", "i", "o", "n" >>,
      << "s", "e", "e", "d" >> }

\* file.extension === ... of the data branch
DataExts ==
    { << ".", "s", "q", "l" >>,
      << ".", "g", "r", "a", "p", "h", "q", "l" >>,
      << ".", "g", "q", "l" >> }

\* pathLower.includes(...) of the utils branch
UtilsWords ==
    { << "u", "t", "i", "l" >>,
      << "h", "e", "l", "p", "e", "r" >>,
      << "c", "o", "m", "m", "o", "n" >>,
      << "s", "h", "a", "r", "e", "d" >>,
      << "l", "i", "b" >>,
      << "t", "o", "o", "l" >>,
      << "c", "o", "n", "s", "t", "a", "n", "t" >>,
      << "e", "n", "u", "m" >> }

\* nameLower === ... of the config branch
ConfigNames ==
    { << "p", "a", "c", "k", "a", "g", "e", ".", "j", "s", "o", "n" >>,
      << "t", "s", "c", "o", "n", "f", "i", "g", ".", "j", "s", "o", "n" >>,
      << "w", "e", "b", "p", "a", "c", "k", ".", "c", "o", "n", "f", "i", "g", ".", "j", "s" >>,
      << "b", "a", "b", "e", "l", ".", "c", "o", "n", "f", "i", "g", ".", "j", "s" >>,
      << ".", "e", "n", "v" >> }

\* file.extension === ... of the config branch
ConfigExts ==
    { << ".", "e", "n", "v" >>,
      << ".", "j", "s", "o", "n" >>,
      << ".", "y", "a", "m", "l" >>,
      << ".", "y", "m", "l" >>,
      << ".", "x", "m", "l" >>,
      << ".", "t", "o", "m", "l" >>,
      << ".", "i", "n", "i" >>,
      << ".", "p", "r", "o", "p", "e", "r", "t", "i", "e", "s" >>,
      << ".", "c", "o", "n", "f" >> }

\* the extensions of the fallback that go to business
BackendExts ==
    { << ".", "p", "h", "p" >>,
      << ".", "p", "y" >>,
      << ".", "j", "a", "v", "a" >>,
      << ".", "c", "s" >>,
      << ".", "g", "o" >>,
      << ".", "r", "s" >> }

W_config == << "c", "o", "n", "f", "i", "g" >>

IncludesAny(s, words) == \E w \in words : Includes(s, w)

PresentationSignal(file) ==
    \/ IncludesAny(ToLowerCase(file.path), PresentationWords)
    \/ file.extension \in PresentationExts

BusinessSignal(file) == IncludesAny(ToLowerCase(file.path), BusinessWords)

DataSignal(file) ==
    \/ IncludesAny(ToLowerCase(file.path), DataWords)
    \/ file.extension \in DataExts

UtilsSignal(file) == IncludesAny(ToLowerCase(file.path), UtilsWords)

ConfigSignal(file) ==
    \/ Includes(ToLowerCase(file.path), W_config)
    \/ Includes(ToLowerCase(file.name), W_config)
    \/ ToLowerCase(file.name) \in ConfigNames
    \/ file.extension \in ConfigExts

\* the if / else-if cascade: which push each file reaches
PushesPresentation(file) == PresentationSignal(file)

\* the business test placed after the data test
BusinessAfterData(file) ==
    ~PresentationSignal(file) /\ ~DataSignal(file) /\ BusinessSignal(file)

PushesBusiness(file) ==
    /\ ~PresentationSignal(file)
    /\ BusinessSignal(file)

PushesData(file) ==
    /\ ~PresentationSignal(file) /\ ~BusinessSignal(file)
    /\ DataSignal(file)

PushesUtils(file) ==
    /\ ~PresentationSignal(file) /\ ~BusinessSignal(file) /\ ~DataSignal(file)
    /\ UtilsSignal(file)

\* the config test as an if of its own
ConfigSignalAlone(file) == ConfigSignal(file)

PushesConfig(file) ==
    /\ ~PresentationSignal(file) /\ ~BusinessSignal(file) /\ ~DataSignal(file)
    /\ ~UtilsSignal(file)
    /\ ConfigSignal(file)

FallsThrough(file) ==
    /\ ~PresentationSignal(file) /\ ~BusinessSignal(file) /\ ~DataSignal(file)
    /\ ~UtilsSignal(file) /\ ~ConfigSignal(file)

FallbackBusiness(file) == FallsThrough(file) /\ file.extension \in BackendExts

FallbackUtils(file) == FallsThrough(file) /\ file.extension \notin BackendExts

organizeLayers(fs) ==
    [ presentation |-> SelectSeq(fs, PushesPresentation),
      business     |-> SelectSeq(fs, LAMBDA f : PushesBusiness(f) \/ FallbackBusiness(f)),
      data         |-> SelectSeq(fs, PushesData),
      utils        |-> SelectSeq(fs, LAMBDA f : PushesUtils(f) \/ FallbackUtils(f)),
      config       |-> SelectSeq(fs, PushesConfig) ]

(***************************************************************************)
(* The workspace on disk, as fs.readdir and fs.readFile deliver it.        *)
(* A Dirent is a name and a kind: "dir" (isDirectory()), "file" (isFile()) *)
(* or "other" (a symbolic link, a socket, ...).                            *)
(***************************************************************************)
F(name) == [name |-> name, kind |-> "file"]

D(name) == [name |-> name, kind |-> "dir"]

O(name) == [name |-> name, kind |-> "other"]

ListingA ==
    << F(<< "b", ".", "t", "s" >>),
       D(<< "u", "i" >>),
       D(<< "t", "m", "p" >>),
       F(<< "a", ".", "t", "s" >>),
       D(<< "a", "p", "i" >>) >>

ListingB ==
    << F(<< "i", "n", "d", "e", "x", ".", "t", "s" >>),
       D(<< ".", "x" >>),
       O(<< "l", "n", "k" >>),
       F(<< "m", ".", "s", "q", "l" >>) >>

ListingC == << >>

ListingD ==
    << F(<< "c", ".", "j", "s", "o", "n" >>),
       F(<< ".", "e", "n", "v" >>),
       D(<< "l", "i", "b" >>) >>

\* more entries than one batch holds: lib is scanned in the first batch, the
\* second batch is Y.py and src
ListingE ==
    << D(<< ".", "g", "i", "t" >>),
       D(<< "n", "o", "d", "e", "_", "m", "o", "d", "u", "l", "e", "s" >>),
       D(<< "d", "i", "s", "t" >>),
       D(<< "b", "u", "i", "l", "d" >>),
       D(<< "l", "i", "b" >>),
       D(<< ".", "v", "s", "c", "o", "d", "e" >>),
       D(<< ".", "i", "d", "e", "a" >>),
       D(<< "t", "m", "p" >>),
       D(<< "t", "e", "m", "p" >>),
       F(<< "z", ".", "t", "s" >>),
       F(<< "Y", ".", "p", "y" >>),
       D(<< "s", "r", "c" >>) >>

\* x.jsx beside a directory a; a_x.jsx beside a directory a; x.jsx alone
ListingN == << D(<< "a" >>), F(<< "x", ".", "j", "s", "x" >>) >>

ListingM == << F(<< "a", "_", "x", ".", "j", "s", "x" >>), D(<< "a" >>) >>

ListingX == << F(<< "x", ".", "j", "s", "x" >>) >>

ListingPool == { ListingA, ListingB, ListingC, ListingD, ListingE }

\* the total number of directories a workspace has that the scan reads
MaxDirs == 3

\* the directories of a listing that buildFileTreeParallel descends into
Descended(listing) ==
    { i \in 1..Len(listing) : listing[i].kind = "dir" /\ IsDescended(listing[i].name) }

ContentEmpty == << >>

ContentA ==
    << Stmt("import", << ".", "/", "a" >>),
       Stmt("require", << ".", "/", "a" >>),
       Stmt("import", << "r", "e", "a", "c", "t" >>),
       DbStmt(<< [pat |-> 1, text |-> << "m", "y", "s", "q", "l", ":", "/", "/", "u", ":",
                                         "p", "@", "h", "/", "d" >>] >>) >>

ContentB ==
    << Stmt("import", << ".", ".", "/", "b" >>),
       Stmt("dynamic", << ".", "/", "n", "o", "p", "e" >>),
       Stmt("import", << ".", "/", "u", "i" >>),
       Stmt("require", << "/", "a", ".", "t", "s" >>) >>

\* DB_URL="redis://h:1" is matched by the redis pattern and by the generic
\* (DB|DATABASE)_(HOST|URL|CONNECTION) pattern; then a mongoose.connect and a
\* second redis connection string
ContentDb ==
    << DbStmt(<< [pat |-> 7,  text |-> << "r", "e", "d", "i", "s", ":", "/", "/", "h", ":", "1" >>],
                 [pat |-> 11, text |-> << "D", "B", "_", "U", "R", "L", "=", "\"", "r", "e", "d",
                                          "i", "s", ":", "/", "/", "h", ":", "1", "\"" >>] >>),
       DbStmt(<< [pat |-> 6,  text |-> << "m", "o", "n", "g", "o", "o", "s", "e", ".", "c", "o",
                                          "n", "n", "e", "c", "t", "(", "'", "m", "o", "n", "g",
                                          "o", "d", "b", ":", "/", "/", "h", "'" >>] >>),
       DbStmt(<< [pat |-> 7,  text |-> << "r", "e", "d", "i", "s", ":", "/", "/", "k", ":", "2" >>] >>) >>

\* what readFileContent can deliver for a file (ContentEmpty also stands for
\* the '' of a failed read): source files import, configuration files hold a
\* connection string
\* the imports of v.tsx: a specifier with three existing variants, one with
\* an extension of its own, one with a single variant, one to an index file
ContentV ==
    << Stmt("import", << ".", "/", "a" >>),
       Stmt("import", << ".", "/", "a", ".", "d" >>),
       Stmt("require", << ".", "/", "a", "/", "m" >>),
       Stmt("dynamic", << ".", "/", "a", "/", "i", "n", "d", "e", "x" >>) >>

\* the imports of a .jsx file: a sibling x, an x one directory up, a package
ContentX ==
    << Stmt("import", << ".", "/", "x" >>),
       Stmt("import", << ".", ".", "/", "x" >>),
       Stmt("import", << "r", "e", "a", "c", "t" >>) >>

ContentsOf(file) ==
    IF file.extension = << ".", "t", "s", "x" >> THEN { ContentV }
    ELSE IF file.extension = << ".", "j", "s", "x" >> THEN { ContentX }
    ELSE IF file.extension \in jsExtensions THEN { ContentA, ContentB }
    ELSE IF file.extension = << ".", "j", "s", "o", "n" >> THEN { ContentDb }
    ELSE { ContentEmpty }

(***************************************************************************)
(* State                                                                   *)
(***************************************************************************)
VARIABLES
    phase,         \* where analyzeProject stands: "scan", "deps", "done"
    calls,         \* the invocations of buildFileTreeParallel, by relative path
    fileTree,      \* const fileTree of analyzeProject
    files,         \* const files of analyzeProject
    depBatch,      \* the batch of analyzeDependenciesParallel in flight
    dependencies,  \* const dependencies of analyzeDependenciesParallel
    fileCache,     \* this.fileCache
    result,        \* the ProjectStructure returned, << >> before
    outOfOrder,    \* history: a task resolved before an earlier task of its batch
    faults,        \* history: the operations that failed, << kind, path >>
    cancelRequested, \* the host has asked for the analysis to be cancelled
    run,           \* how many times analyzeProject was called on this analyzer
    progress,      \* the progress.report calls of analyzeProjectCommand, in order
    components,    \* diagram.js state.components
    connections,   \* diagram.js state.connections
    cycles,        \* const cycles of findCircularDependencies, once it has run
    maxPath,       \* const maxPath of showCriticalPath, once it has run
    complexity,    \* what calculateComplexity returned, once it has run
    view,          \* the webview: "empty", "loaded", "analysed", "path", "report"
    disk,          \* the content of the files of the workspace, by path
    editor,        \* diagram.js: the file preview and its editor
    toExtension,   \* messages posted by the webview, not yet handled
    toWebview      \* messages posted by the extension, not yet handled

vars ==
    << phase, calls, fileTree, files, depBatch, dependencies, fileCache, result,
       outOfOrder, faults, cancelRequested, run, progress, components, connections,
       cycles, maxPath, complexity, view, disk, editor, toExtension, toWebview >>

\* what the steps of an undisturbed analysis leave alone
hostVars == << faults, cancelRequested, run, progress >>

analyzerVars ==
    << phase, calls, fileTree, files, depBatch, dependencies, fileCache, result,
       outOfOrder, faults, cancelRequested, run, progress >>

graphVars == << components, connections, cycles, maxPath, complexity, view >>

editorVars == << disk, editor, toExtension, toWebview >>

RootPath == EmptyStr

(***************************************************************************)
(* The files the preview shows.  A text is the sequence of its lines       *)
(* (text.split('\n')), held as runs of equal lines, no two adjacent runs   *)
(* of the same line; the empty string is the one empty line.               *)
(***************************************************************************)
\* lines.slice(0, 1000)
PREVIEW_LINES == 1000

Run(line, times) == [ line |-> line, times |-> times ]

EmptyText == << Run("", 1) >>

ShortText == << Run("const a = 1;", 1), Run("", 1) >>

\* a text of one line more than the preview holds
LongText == << Run("x", PREVIEW_LINES + 1) >>

TypedText == << Run("edited", 1) >>

\* lines.length
RECURSIVE LineCount(_)
LineCount(text) == IF Len(text) = 0 THEN 0 ELSE Head(text).times + LineCount(Tail(text))

\* lines.slice(0, n)
RECURSIVE SliceLines(_, _)
SliceLines(text, n) ==
    IF n = 0 \/ Len(text) = 0 THEN << >>
    ELSE IF Head(text).times >= n THEN << Run(Head(text).line, n) >>
    ELSE << Head(text) >> \o SliceLines(Tail(text), n - Head(text).times)

\* short.ts, empty.ts and long.ts exist; gone.ts is a component whose file
\* has been removed since the analysis
PreviewPaths == { "short.ts", "empty.ts", "long.ts", "gone.ts" }

InitialDisk ==
    [p \in { "short.ts", "empty.ts", "long.ts" } |->
        IF p = "short.ts" THEN ShortText
        ELSE IF p = "empty.ts" THEN EmptyText
        ELSE LongText]

\* undefined and null
Undefined == "undefined"

Null == "null"

\* state.currentFilePath, state.currentFileContent, the textarea, the code
\* element and the mode of the preview (the title, which nothing reads, is
\* left out); typed and failed are history: the user has typed, a
\* fileContent response was shown as 'Unable to load file content.'
NewEditor ==
    [ currentFilePath    |-> Undefined,
      currentFileContent |-> Undefined,
      textarea           |-> EmptyText,
      code               |-> "empty",
      mode               |-> "view",
      typed              |-> FALSE,
      failed             |-> FALSE ]

Min(a, b) == IF a < b THEN a ELSE b

\* the state of an invocation that awaits fs.readdir
NewCall ==
    [ st      |-> "readdir",
      entries |-> << >>,
      lo      |-> 0,
      pending |-> {},
      results |-> << >>,
      items   |-> << >>,
      result  |-> << >> ]

\* every entry from lo on in one batch
UnbatchedEnd(call, lo) == Len(call.entries)

BatchEnd(call, lo) == Min(lo + SCAN_BATCH_SIZE - 1, Len(call.entries))

ChildPath(dir, name) == PathJoin(dir, name)

\* batch.map(async (entry) => ...): every task of the batch runs to its first
\* await.  A directory that is descended starts the invocation of its
\* subtree and its stat; a file starts its stat; anything else is null at once.
StartBatch(cs, dir, lo) ==
    LET call     == cs[dir]
        hi       == BatchEnd(call, lo)
        subdirs  == { i \in lo..hi : i \in Descended(call.entries) }
        stats    == { i \in lo..hi : call.entries[i].kind = "file" }
        children == { ChildPath(dir, call.entries[i].name) : i \in subdirs }
    IN  [p \in DOMAIN cs \cup children |->
            IF p = dir
            THEN [call EXCEPT !.st = "batch", !.lo = lo,
                              !.pending = subdirs \cup stats,
                              !.results = [i \in 1..Len(call.entries) |-> << >>]]
            ELSE IF p \in children THEN NewCall
            ELSE cs[p]]

\* return items.sort(...)
ReturnCall(cs, dir) ==
    [cs EXCEPT ![dir].st = "returned", ![dir].result = SortItems(cs[dir].items)]

\* the directories the listings read so far say the workspace has: the root
\* and every descended directory entry
DirsKnown(cs) ==
    1 + Cardinality({ de \in UNION { { << d, i >> : i \in Descended(cs[d].entries) } :
                                     d \in DOMAIN cs } : TRUE })

\* fs.readdir resolves with a listing; the first batch starts, or with no
\* entry at all the invocation returns
ReaddirWithin(pool, dirs, dir) ==
    /\ phase = "scan"
    /\ dir \in DOMAIN calls
    /\ calls[dir].st = "readdir"
    /\ \E listing \in pool :
        /\ DirsKnown(calls) + Cardinality(Descended(listing)) <= dirs
        /\ LET cs == [calls EXCEPT ![dir].entries = listing]
           IN  calls' = IF Len(listing) = 0 THEN ReturnCall(cs, dir)
                        ELSE StartBatch(cs, dir, 1)
    /\ UNCHANGED << phase, fileTree, files, depBatch, dependencies, fileCache, result, outOfOrder >>
    /\ UNCHANGED << hostVars, graphVars, editorVars >>

ReaddirFrom(pool, dir) == ReaddirWithin(pool, MaxDirs, dir)

ReaddirDone(dir) == ReaddirFrom(ListingPool, dir)

\* history: task i of dir's batch resolves while an earlier task is pending
NoteScanOrder(dir, i) ==
    outOfOrder' = [outOfOrder EXCEPT !.scan = @ \/ \E j \in calls[dir].pending : j < i]

\* fs.stat of a file entry resolves: the task returns the file's FileInfo
StatDone(dir, i) ==
    /\ phase = "scan"
    /\ dir \in DOMAIN calls
    /\ calls[dir].st = "batch"
    /\ i \in calls[dir].pending
    /\ calls[dir].entries[i].kind = "file"
    /\ LET name == calls[dir].entries[i].name
       IN  calls' = [calls EXCEPT ![dir].pending = @ \ { i },
                                  ![dir].results[i] = << FileItem(ChildPath(dir, name), name) >>]
    /\ NoteScanOrder(dir, i)
    /\ UNCHANGED << phase, fileTree, files, depBatch, dependencies, fileCache, result >>
    /\ UNCHANGED << hostVars, graphVars, editorVars >>

\* a directory task that leaves out a directory without children
OmitEmptyDirectory(child, name, call) ==
    IF Len(call.result) = 0 THEN << >> ELSE << DirItem(child, name, call.result) >>

\* return { path, name, ..., isDirectory: true, children }
DirTaskItems(child, name, call) == << DirItem(child, name, call.result) >>

\* Promise.all([buildFileTreeParallel(child), fs.stat(child)]) resolves: the
\* task returns the directory's FileInfo with the children of the subtree
DirTaskDone(dir, i) ==
    /\ phase = "scan"
    /\ dir \in DOMAIN calls
    /\ calls[dir].st = "batch"
    /\ i \in calls[dir].pending
    /\ calls[dir].entries[i].kind = "dir"
    /\ LET name  == calls[dir].entries[i].name
           child == ChildPath(dir, name)
       IN  /\ calls[child].st = "returned"
           /\ calls' = [calls EXCEPT ![dir].pending = @ \ { i },
                                     ![dir].results[i] =
                                         DirTaskItems(child, name, calls[child])]
    /\ NoteScanOrder(dir, i)
    /\ UNCHANGED << phase, fileTree, files, depBatch, dependencies, fileCache, result >>
    /\ UNCHANGED << hostVars, graphVars, editorVars >>

\* batchResults.filter(item => item !== null), in the order of the batch
RECURSIVE BatchItems(_, _, _)
BatchItems(results, lo, hi) ==
    IF lo > hi THEN << >>
    ELSE results[lo] \o BatchItems(results, lo + 1, hi)

\* await Promise.all(batchPromises) resolves: the batch's items are pushed,
\* and the next batch starts or the sorted items are returned
BatchJoin(dir) ==
    /\ phase = "scan"
    /\ dir \in DOMAIN calls
    /\ calls[dir].st = "batch"
    /\ calls[dir].pending = {}
    /\ LET call == calls[dir]
           hi   == BatchEnd(call, call.lo)
           cs   == [calls EXCEPT ![dir].items = @ \o BatchItems(call.results, call.lo, hi)]
       IN  calls' = IF hi < Len(call.entries) THEN StartBatch(cs, dir, hi + 1)
                    ELSE ReturnCall(cs, dir)
    /\ UNCHANGED << phase, fileTree, files, depBatch, dependencies, fileCache, result, outOfOrder >>
    /\ UNCHANGED << hostVars, graphVars, editorVars >>

\* new Map(files.map(f => [f.path, f])): the keys
FileMapOf(fs) == { fs[i].path : i \in 1..Len(fs) }

\* every file from lo on in one batch
UnbatchedDepsEnd(fs, lo) == Len(fs)

DepsBatchEnd(fs, lo) == Min(lo + DEPS_BATCH_SIZE - 1, Len(fs))

\* batch.map(async (file) => ...): every task of the batch awaits its read
StartDepsBatch(fs, lo) ==
    [ lo      |-> lo,
      pending |-> lo..DepsBatchEnd(fs, lo),
      results |-> [i \in 1..Len(fs) |-> << >>] ]

\* buildFileTreeParallel(rootPath) has returned: flattenFileTree, then
\* analyzeDependenciesParallel starts its first batch
ScanComplete ==
    /\ phase = "scan"
    /\ calls[RootPath].st = "returned"
    /\ fileTree' = calls[RootPath].result
    /\ files' = flattenFileTree(fileTree')
    /\ depBatch' = StartDepsBatch(files', 1)
    /\ phase' = "deps"
    /\ UNCHANGED << calls, dependencies, fileCache, result, outOfOrder >>
    /\ UNCHANGED << hostVars, graphVars, editorVars >>

\* one task of the batch: readFileContent resolves, the content is cached and
\* the file's edges are extracted
ExtractDone(k) ==
    /\ phase = "deps"
    /\ k \in depBatch.pending
    /\ \E content \in ContentsOf(files[k]) :
        /\ fileCache' = [p \in DOMAIN fileCache \cup { files[k].path } |->
                            IF p = files[k].path THEN content ELSE fileCache[p]]
        /\ depBatch' = [depBatch EXCEPT
                            !.pending = @ \ { k },
                            !.results[k] = FileDeps(files[k], content, FileMapOf(files))]
    /\ outOfOrder' = [outOfOrder EXCEPT !.deps = @ \/ \E j \in depBatch.pending : j < k]
    /\ UNCHANGED << phase, calls, fileTree, files, dependencies, result >>
    /\ UNCHANGED << hostVars, graphVars, editorVars >>

\* the edges of the batch's first task only
FirstSettledDeps(results, lo, hi) == IF lo > hi THEN << >> ELSE results[lo]

\* batchResults.forEach(deps => dependencies.push(...deps))
RECURSIVE BatchDeps(_, _, _)
BatchDeps(results, lo, hi) ==
    IF lo > hi THEN << >>
    ELSE results[lo] \o BatchDeps(results, lo + 1, hi)

Max(a, b) == IF a > b THEN a ELSE b

\* Math.round(x / y * 100) for naturals x and y > 0
RoundedPercent(x, y) == (200 * x + y) \div (2 * y)

\* the counts of calculateStats (sizes are not modelled)
calculateStats(fs, deps) ==
    [ totalFiles        |-> Len(fs),
      totalDependencies |-> Len(deps),
      dependencyRatio   |-> RoundedPercent(Cardinality(filesWithDependencies(deps)),
                                           Max(Len(fs), 1)) ]

\* the ProjectStructure analyzeProject returns
ProjectStructure(fs, tree, uniqueDeps) ==
    [ files        |-> fs,
      fileTree     |-> tree,
      dependencies |-> uniqueDeps,
      layers       |-> organizeLayers(fs),
      stats        |-> calculateStats(fs, uniqueDeps) ]

\* await Promise.all(batchPromises) resolves.  After the last batch the
\* dependencies are deduplicated, usage and reference counts are set and
\* analyzeProject returns.
DepsBatchJoin ==
    /\ phase = "deps"
    /\ depBatch.pending = {}
    /\ LET hi   == DepsBatchEnd(files, depBatch.lo)
           deps == dependencies \o BatchDeps(depBatch.results, depBatch.lo, hi)
       IN  /\ dependencies' = deps
           /\ IF hi < Len(files)
              THEN /\ depBatch' = StartDepsBatch(files, hi + 1)
                   /\ UNCHANGED << phase, files, result >>
              ELSE LET uniqueDeps == deduplicateDependencies(deps)
                   IN  /\ files' = SetUsage(files, uniqueDeps)
                       /\ result' = << ProjectStructure(files', fileTree, uniqueDeps) >>
                       /\ phase' = "done"
                       /\ UNCHANGED depBatch
    /\ UNCHANGED << calls, fileTree, fileCache, outOfOrder >>
    /\ UNCHANGED << hostVars, graphVars, editorVars >>

Init ==
    /\ phase = "scan"
    /\ calls = [p \in { RootPath } |-> NewCall]
    /\ fileTree = << >>
    /\ files = << >>
    /\ depBatch = [lo |-> 0, pending |-> {}, results |-> << >>]
    /\ dependencies = << >>
    /\ fileCache = << >>
    /\ result = << >>
    /\ outOfOrder = [scan |-> FALSE, deps |-> FALSE]
    /\ faults = {}
    /\ cancelRequested = FALSE
    /\ run = 1
    /\ progress = << >>
    /\ components = << >>
    /\ connections = << >>
    /\ cycles = << >>
    /\ maxPath = << >>
    /\ complexity = << >>
    /\ view = "empty"
    /\ disk = InitialDisk
    /\ editor = NewEditor
    /\ toExtension = << >>
    /\ toWebview = << >>

Next ==
    \/ \E dir \in DOMAIN calls : ReaddirDone(dir)
    \/ \E dir \in DOMAIN calls : \E i \in calls[dir].pending : StatDone(dir, i)
    \/ \E dir \in DOMAIN calls : \E i \in calls[dir].pending : DirTaskDone(dir, i)
    \/ \E dir \in DOMAIN calls : BatchJoin(dir)
    \/ ScanComplete
    \/ \E k \in depBatch.pending : ExtractDone(k)
    \/ DepsBatchJoin

Spec == Init /\ [][Next]_vars

(***************************************************************************)
(* Failing filesystem operations                                           *)
(***************************************************************************)
\* how many operations of one analysis fail
MaxFaults == 1

\* the workspaces the analyses with failures run over
FaultPool == { ListingA, ListingB, ListingC }

ReaddirOk(dir) == ReaddirFrom(FaultPool, dir)

\* fs.readdir rejects: the catch logs, nothing was pushed, and the invocation
\* returns its (empty) items
ReaddirFail(dir) ==
    /\ phase = "scan"
    /\ dir \in DOMAIN calls
    /\ calls[dir].st = "readdir"
    /\ Cardinality(faults) < MaxFaults
    /\ calls' = ReturnCall(calls, dir)
    /\ faults' = faults \cup { << "readdir", dir >> }
    /\ UNCHANGED << phase, fileTree, files, depBatch, dependencies, fileCache, result,
                    outOfOrder, cancelRequested, run, progress >>
    /\ UNCHANGED << graphVars, editorVars >>

\* a failed task that returns the edges extracted before the failure
ImportsBeforeFailure(file, content, fileMap) ==
    IF file.extension \in jsExtensions
    THEN extractJSDependencies(file.path, content, fileMap) ELSE << >>

\* catch (error) { ...; return []; }
CaughtTaskDeps(file, content, fileMap) == << >>

\* fs.readFile rejects: readFileContent returns '', which is cached and
\* searched for statements like any content
ReadFail(k) ==
    /\ phase = "deps"
    /\ k \in depBatch.pending
    /\ Cardinality(faults) < MaxFaults
    /\ fileCache' = [p \in DOMAIN fileCache \cup { files[k].path } |->
                        IF p = files[k].path THEN ContentEmpty ELSE fileCache[p]]
    /\ depBatch' = [depBatch EXCEPT
                        !.pending = @ \ { k },
                        !.results[k] = FileDeps(files[k], ContentEmpty, FileMapOf(files))]
    /\ faults' = faults \cup { << "read", files[k].path >> }
    /\ outOfOrder' = [outOfOrder EXCEPT !.deps = @ \/ \E j \in depBatch.pending : j < k]
    /\ UNCHANGED << phase, calls, fileTree, files, dependencies, result,
                    cancelRequested, run, progress >>
    /\ UNCHANGED << graphVars, editorVars >>

\* the content is read and cached, then an extractor throws: the task's catch
\* returns []
ExtractFail(k) ==
    /\ phase = "deps"
    /\ k \in depBatch.pending
    /\ Cardinality(faults) < MaxFaults
    /\ \E content \in ContentsOf(files[k]) :
        /\ fileCache' = [p \in DOMAIN fileCache \cup { files[k].path } |->
                            IF p = files[k].path THEN content ELSE fileCache[p]]
        /\ depBatch' = [depBatch EXCEPT
                            !.pending = @ \ { k },
                            !.results[k] = CaughtTaskDeps(files[k], content, FileMapOf(files))]
    /\ faults' = faults \cup { << "extract", files[k].path >> }
    /\ outOfOrder' = [outOfOrder EXCEPT !.deps = @ \/ \E j \in depBatch.pending : j < k]
    /\ UNCHANGED << phase, calls, fileTree, files, dependencies, result,
                    cancelRequested, run, progress >>
    /\ UNCHANGED << graphVars, editorVars >>

NextFail ==
    \/ \E dir \in DOMAIN calls : ReaddirOk(dir)
    \/ \E dir \in DOMAIN calls : ReaddirFail(dir)
    \/ \E dir \in DOMAIN calls : \E i \in calls[dir].pending : StatDone(dir, i)
    \/ \E dir \in DOMAIN calls : \E i \in calls[dir].pending : DirTaskDone(dir, i)
    \/ \E dir \in DOMAIN calls : BatchJoin(dir)
    \/ ScanComplete
    \/ \E k \in depBatch.pending : ExtractDone(k)
    \/ \E k \in depBatch.pending : ReadFail(k)
    \/ \E k \in depBatch.pending : ExtractFail(k)
    \/ DepsBatchJoin

SpecFail == Init /\ [][NextFail]_vars

(***************************************************************************)
(* A host that asks for cancellation                                       *)
(***************************************************************************)
\* workspaces with more entries than one batch holds
CancelPool == { ListingB, ListingC, ListingE }

ReaddirUncancelled(dir) == ReaddirFrom(CancelPool, dir)

\* The host wants the analysis to stop.  withProgress is called with
\* cancellable: false and analyzeProject takes no token: the request changes
\* nothing the analyzer reads.
HostCancel ==
    /\ phase # "done"
    /\ ~cancelRequested
    /\ cancelRequested' = TRUE
    /\ UNCHANGED << phase, calls, fileTree, files, depBatch, dependencies, fileCache,
                    result, outOfOrder, faults, run, progress >>
    /\ UNCHANGED << graphVars, editorVars >>

NextCancel ==
    \/ HostCancel
    \/ \E dir \in DOMAIN calls : ReaddirUncancelled(dir)
    \/ \E dir \in DOMAIN calls : \E i \in calls[dir].pending : StatDone(dir, i)
    \/ \E dir \in DOMAIN calls : \E i \in calls[dir].pending : DirTaskDone(dir, i)
    \/ \E dir \in DOMAIN calls : BatchJoin(dir)
    \/ ScanComplete
    \/ \E k \in depBatch.pending : ExtractDone(k)
    \/ DepsBatchJoin

SpecCancel == Init /\ [][NextCancel]_vars

(***************************************************************************)
(* An analyzer that is asked to analyse again                              *)
(***************************************************************************)
\* how many times analyzeProject is called on one analyzer
MaxRuns == 2

RerunPool == { ListingB, ListingC, ListingD }

ReaddirOfRun(dir) == ReaddirFrom(RerunPool, dir)

\* analyzeProject is called on the analyzer that has completed an analysis:
\* the locals of the call are new, the field fileCache is the analyzer's
AnalyzeAgain ==
    /\ phase = "done"
    /\ run < MaxRuns
    /\ run' = run + 1
    /\ phase' = "scan"
    /\ calls' = [p \in { RootPath } |-> NewCall]
    /\ fileTree' = << >>
    /\ files' = << >>
    /\ depBatch' = [lo |-> 0, pending |-> {}, results |-> << >>]
    /\ dependencies' = << >>
    /\ result' = << >>
    /\ UNCHANGED << fileCache, outOfOrder, faults, cancelRequested, progress >>
    /\ UNCHANGED << graphVars, editorVars >>

NextRerun ==
    \/ AnalyzeAgain
    \/ \E dir \in DOMAIN calls : ReaddirOfRun(dir)
    \/ \E dir \in DOMAIN calls : \E i \in calls[dir].pending : StatDone(dir, i)
    \/ \E dir \in DOMAIN calls : \E i \in calls[dir].pending : DirTaskDone(dir, i)
    \/ \E dir \in DOMAIN calls : BatchJoin(dir)
    \/ ScanComplete
    \/ \E k \in depBatch.pending : ExtractDone(k)
    \/ DepsBatchJoin

SpecRerun == Init /\ [][NextRerun]_vars

(***************************************************************************)
(* A wide workspace: three directories of seven files                      *)
(***************************************************************************)
ListingW == << D(<< "p" >>), D(<< "q" >>), D(<< "r" >>) >>

\* a.o ... f.o, which no extractor reads, and g.ts
ListingF ==
    [i \in 1..7 |-> IF i < 7 THEN F(<< LowerChars[i], ".", "o" >>)
                    ELSE F(<< LowerChars[i], ".", "t", "s" >>)]

WidePool == { ListingW, ListingF }

\* the directories of the wide workspace
WideDirs == 4

ReaddirWide(dir) == ReaddirWithin(WidePool, WideDirs, dir)

\* the schedule in which the tasks of a batch resolve in the order of the batch
IsNext(pending, i) == \A j \in pending : i <= j

StatDoneInOrder(dir, i) == IsNext(calls[dir].pending, i) /\ StatDone(dir, i)

DirTaskDoneInOrder(dir, i) == IsNext(calls[dir].pending, i) /\ DirTaskDone(dir, i)

ExtractDoneInOrder(k) == IsNext(depBatch.pending, k) /\ ExtractDone(k)

NextWide ==
    \/ \E dir \in DOMAIN calls : ReaddirWide(dir)
    \/ \E dir \in DOMAIN calls : \E i \in calls[dir].pending : StatDoneInOrder(dir, i)
    \/ \E dir \in DOMAIN calls : \E i \in calls[dir].pending : DirTaskDoneInOrder(dir, i)
    \/ \E dir \in DOMAIN calls : BatchJoin(dir)
    \/ ScanComplete
    \/ \E k \in depBatch.pending : ExtractDoneInOrder(k)
    \/ DepsBatchJoin

SpecWide == Init /\ [][NextWide]_vars

(***************************************************************************)
(* Failing fs.stat                                                         *)
(***************************************************************************)
\* the twelve entries of two batches, a directory with one file, none
StatPool == { ListingE, ListingX, ListingC }

ReaddirBeforeStat(dir) == ReaddirFrom(StatPool, dir)

\* fs.stat of an entry rejects: the task rejects, Promise.all(batchPromises)
\* rejects, the catch around the loop logs, and the invocation returns the
\* items of the batches before this one.  The other tasks of the batch stay
\* in flight; nothing awaits them.
StatFail(dir, i) ==
    /\ phase = "scan"
    /\ dir \in DOMAIN calls
    /\ calls[dir].st = "batch"
    /\ i \in calls[dir].pending
    /\ Cardinality(faults) < MaxFaults
    /\ calls' = ReturnCall(calls, dir)
    /\ faults' = faults \cup { << "stat", ChildPath(dir, calls[dir].entries[i].name) >> }
    /\ UNCHANGED << phase, fileTree, files, depBatch, dependencies, fileCache, result,
                    outOfOrder, cancelRequested, run, progress >>
    /\ UNCHANGED << graphVars, editorVars >>

NextStat ==
    \/ \E dir \in DOMAIN calls : ReaddirBeforeStat(dir)
    \/ \E dir \in DOMAIN calls : \E i \in calls[dir].pending : StatDone(dir, i)
    \/ \E dir \in DOMAIN calls : \E i \in calls[dir].pending : StatFail(dir, i)
    \/ \E dir \in DOMAIN calls : \E i \in calls[dir].pending : DirTaskDone(dir, i)
    \/ \E dir \in DOMAIN calls : BatchJoin(dir)
    \/ ScanComplete
    \/ \E k \in depBatch.pending : ExtractDone(k)
    \/ DepsBatchJoin

SpecStat == Init /\ [][NextStat]_vars

(***************************************************************************)
(* A workspace in which an import specifier has several existing variants  *)
(***************************************************************************)
\* a.css, a.ts, a.d.ts and v.tsx beside a directory a
ListingV ==
    << F(<< "a", ".", "c", "s", "s" >>),
       F(<< "a", ".", "t", "s" >>),
       D(<< "a" >>),
       F(<< "a", ".", "d", ".", "t", "s" >>),
       F(<< "v", ".", "t", "s", "x" >>) >>

VariantPool == { ListingV, ListingB, ListingC }

ReaddirVariants(dir) == ReaddirFrom(VariantPool, dir)

NextVariants ==
    \/ \E dir \in DOMAIN calls : ReaddirVariants(dir)
    \/ \E dir \in DOMAIN calls : \E i \in calls[dir].pending : StatDone(dir, i)
    \/ \E dir \in DOMAIN calls : \E i \in calls[dir].pending : DirTaskDone(dir, i)
    \/ \E dir \in DOMAIN calls : BatchJoin(dir)
    \/ ScanComplete
    \/ \E k \in depBatch.pending : ExtractDone(k)
    \/ DepsBatchJoin

SpecVariants == Init /\ [][NextVariants]_vars

(***************************************************************************)
(* A workspace with more files than one extraction batch holds             *)
(***************************************************************************)
\* a.ts, b.md ... t.md, u.ts: one file more than an extraction batch
ListingBig ==
    [i \in 1..(DEPS_BATCH_SIZE + 1) |->
        IF i = 1 \/ i = DEPS_BATCH_SIZE + 1
        THEN F(<< LowerChars[i], ".", "t", "s" >>)
        ELSE F(<< LowerChars[i], ".", "m", "d" >>)]

BigPool == { ListingBig }

ReaddirBig(dir) == ReaddirFrom(BigPool, dir)

\* how many earlier tasks of its batch a task can overtake
MaxReorder == 3

\* the schedules in which a task resolves before fewer than MaxReorder
\* earlier tasks of its batch
IsNear(pending, i) == Cardinality({ j \in pending : j < i }) < MaxReorder

StatDoneNear(dir, i) == IsNear(calls[dir].pending, i) /\ StatDone(dir, i)

ExtractDoneNear(k) == IsNear(depBatch.pending, k) /\ ExtractDone(k)

NextBig ==
    \/ \E dir \in DOMAIN calls : ReaddirBig(dir)
    \/ \E dir \in DOMAIN calls : \E i \in calls[dir].pending : StatDoneNear(dir, i)
    \/ \E dir \in DOMAIN calls : BatchJoin(dir)
    \/ ScanComplete
    \/ \E k \in depBatch.pending : ExtractDoneNear(k)
    \/ DepsBatchJoin

SpecBig == Init /\ [][NextBig]_vars

(***************************************************************************)
(* diagram.js: the connection graph and findCircularDependencies           *)
(***************************************************************************)
\* component ids: what transformProjectData makes of a.ts, b.ts, c.ts
IdA == << "a", "_", "t", "s" >>

IdB == << "b", "_", "t", "s" >>

IdC == << "c", "_", "t", "s" >>

ComponentIds == { IdA, IdB, IdC }

Component(id) == [ id |-> id ]

Connection(from, to) == [ from |-> from, to |-> to ]

\* connection targets that are no component: '[External] react' after the
\* replace of transformProjectData, and a '[DB:' target, which it keeps
IdExternal == << "_", "E", "x", "t", "e", "r", "n", "a", "l", "_", "_", "r", "e", "a", "c", "t" >>

IdDb == DbPrefix \o << "r", "e", "d", "i", "s", "]" >>

SyntheticIds == { IdExternal, IdDb }

\* the connections a loaded diagram draws from: the ring a -> b -> c -> a,
\* the chord b -> a, the self-import a -> a and two synthetic targets
ConnectionPool ==
    { Connection(IdA, IdB), Connection(IdB, IdC), Connection(IdC, IdA),
      Connection(IdB, IdA), Connection(IdA, IdA),
      Connection(IdC, IdExternal), Connection(IdB, IdDb) }

\* longest connection list loaded
MaxConns == 4

\* the orders state.components can list the three components in
ComponentOrders ==
    { order \in [1..3 -> ComponentIds] : \A i, j \in 1..3 : i # j => order[i] # order[j] }

Digits == << "0", "1", "2", "3", "4", "5", "6", "7", "8", "9" >>

\* UTF-16 code units of the characters of component ids, ascending
CodeUnitOrder ==
    << "-" >> \o Digits \o << ":" >> \o UpperChars \o << "[", "]", "_" >> \o LowerChars

CodeUnitRank(ch) == CHOOSE i \in 1..Len(CodeUnitOrder) : CodeUnitOrder[i] = ch

\* the default comparison of Array.prototype.sort: by code units
RECURSIVE CodeUnitLess(_, _)
CodeUnitLess(a, b) ==
    IF Len(b) = 0 THEN FALSE
    ELSE IF Len(a) = 0 THEN TRUE
    ELSE IF Head(a) # Head(b) THEN CodeUnitRank(Head(a)) < CodeUnitRank(Head(b))
    ELSE CodeUnitLess(Tail(a), Tail(b))

RECURSIVE InsertId(_, _)
InsertId(sorted, id) ==
    IF Len(sorted) = 0 THEN << id >>
    ELSE IF CodeUnitLess(id, Head(sorted)) THEN << id >> \o sorted
    ELSE << Head(sorted) >> \o InsertId(Tail(sorted), id)

RECURSIVE SortIds(_)
SortIds(ids) ==
    IF Len(ids) = 0 THEN << >> ELSE InsertId(SortIds(Tail(ids)), Head(ids))

\* [...cycle].sort().join('-')
cycleKey(cycle) == JoinWith(SortIds(cycle), << "-" >>)

\* a slice that keeps the whole path
WholePath(path, nodeId) == 1

\* path.indexOf(nodeId), 1-based
CycleStart(path, nodeId) ==
    CHOOSE i \in 1..Len(path) :
        path[i] = nodeId /\ \A j \in 1..(i - 1) : path[j] # nodeId

\* { nodes: cycle, connections: cycle.map(...) }
CycleRecord(cycle) ==
    [ nodes       |-> cycle,
      connections |-> [i \in 1..Len(cycle) |->
                          Connection(cycle[i], cycle[(i % Len(cycle)) + 1])] ]

\* a cycle taken as new whatever was found before
NeverExists(found, cycle) == FALSE

\* a cycle taken as known whatever was found before
AlwaysExists(found, cycle) == TRUE

\* cycles.some(existing => existingKey === cycleKey)
CycleExists(found, cycle) ==
    \E i \in 1..Len(found) : cycleKey(found[i].nodes) = cycleKey(cycle)

\* the search state the closure dfs shares: cycles, visited, recursionStack
NewSearch == [ cycles |-> << >>, visited |-> {}, recursionStack |-> {} ]

RECURSIVE dfs(_, _, _, _)
RECURSIVE dfsOutgoing(_, _, _, _)
dfs(conns, nodeId, path, s) ==
    IF nodeId \in s.recursionStack
    THEN LET cycle == SubSeq(path, CycleStart(path, nodeId), Len(path))
         IN  IF ~CycleExists(s.cycles, cycle)
             THEN [s EXCEPT !.cycles = Append(@, CycleRecord(cycle))]
             ELSE s
    ELSE IF nodeId \in s.visited THEN s
    ELSE LET entered  == [s EXCEPT !.visited = @ \cup { nodeId },
                                   !.recursionStack = @ \cup { nodeId }]
             outgoing == SelectSeq(conns, LAMBDA conn : conn.from = nodeId)
             after    == dfsOutgoing(conns, outgoing, Append(path, nodeId), entered)
         IN  [after EXCEPT !.recursionStack = @ \ { nodeId }]

\* for (const conn of outgoing) dfs(conn.to, [...path])
dfsOutgoing(conns, outgoing, path, s) ==
    IF Len(outgoing) = 0 THEN s
    ELSE dfsOutgoing(conns, Tail(outgoing), path, dfs(conns, Head(outgoing).to, path, s))

\* state.components.forEach(comp => { if (!visited.has(comp.id)) dfs(comp.id) })
RECURSIVE CheckEach(_, _, _)
CheckEach(comps, conns, s) ==
    IF Len(comps) = 0 THEN s
    ELSE CheckEach(Tail(comps), conns,
                   IF Head(comps).id \notin s.visited
                   THEN dfs(conns, Head(comps).id, << >>, s)
                   ELSE s)

findCircularDependencies(comps, conns) == CheckEach(comps, conns, NewSearch).cycles

\* the webview receives the diagram data
LoadData ==
    /\ view = "empty"
    /\ \E order \in ComponentOrders :
           components' = [i \in 1..3 |-> Component(order[i])]
    /\ \E n \in 0..MaxConns : \E conns \in [1..n -> ConnectionPool] :
           connections' = conns
    /\ view' = "loaded"
    /\ UNCHANGED << cycles, maxPath, complexity >>
    /\ UNCHANGED << analyzerVars, editorVars >>

\* click on 'Find circular dependencies'
FindCircularDependencies ==
    /\ view = "loaded"
    /\ cycles' = findCircularDependencies(components, connections)
    /\ view' = "analysed"
    /\ UNCHANGED << components, connections, maxPath, complexity >>
    /\ UNCHANGED << analyzerVars, editorVars >>

\* a comparison under which a path as long as the best one replaces it
ReachesBest(length, best) == length >= best

\* length > maxLength, length > maxPath.length
Exceeds(length, best) == length > best

\* findLongestPath gives back its return value and the shared maxPath
RECURSIVE findLongestPath(_, _, _, _, _)
RECURSIVE longestOutgoing(_, _, _, _, _, _)
findLongestPath(conns, nodeId, visited, path, best) ==
    IF nodeId \in visited THEN [ length |-> Len(path), maxPath |-> best ]
    ELSE LET entered  == Append(path, nodeId)
             outgoing == SelectSeq(conns, LAMBDA conn : conn.from = nodeId)
         IN  longestOutgoing(conns, outgoing, visited \cup { nodeId }, entered,
                             Len(entered), best)

\* for (const conn of outgoing): each branch gets copies of visited and path
longestOutgoing(conns, outgoing, visited, path, maxLength, best) ==
    IF Len(outgoing) = 0 THEN [ length |-> maxLength, maxPath |-> best ]
    ELSE LET conn   == Head(outgoing)
             branch == findLongestPath(conns, conn.to, visited, path, best)
             longer == Exceeds(branch.length, maxLength)
             kept   == IF longer /\ Exceeds(branch.length, branch.maxPath.length)
                       THEN [ length |-> branch.length, path |-> Append(path, conn.to) ]
                       ELSE branch.maxPath
         IN  longestOutgoing(conns, Tail(outgoing), visited, path,
                             IF longer THEN branch.length ELSE maxLength, kept)

\* state.components.forEach(comp => { findLongestPath(comp.id) })
RECURSIVE LongestFromEach(_, _, _)
LongestFromEach(comps, conns, best) ==
    IF Len(comps) = 0 THEN best
    ELSE LongestFromEach(Tail(comps), conns,
                         findLongestPath(conns, Head(comps).id, {}, << >>, best).maxPath)

criticalPath(comps, conns) == LongestFromEach(comps, conns, [ length |-> 0, path |-> << >> ])

\* click on 'Show Critical Path' while no path is highlighted
ShowCriticalPath ==
    /\ view = "loaded"
    /\ maxPath' = criticalPath(components, connections)
    /\ view' = "path"
    /\ UNCHANGED << components, connections, cycles, complexity >>
    /\ UNCHANGED << analyzerVars, editorVars >>

GraphNext ==
    \/ LoadData
    \/ FindCircularDependencies
    \/ ShowCriticalPath

SpecGraph == Init /\ [][GraphNext]_vars

(***************************************************************************)
(* calculateComplexity of the report                                       *)
(***************************************************************************)
\* complexity.fanIn[comp.name], complexity.fanOut[comp.name]
FanKey(comp) == comp.name

\* obj[key] = value on an object held as a function
SetKey(obj, key, value) ==
    [k \in DOMAIN obj \cup { key } |-> IF k = key THEN value ELSE obj[k]]

\* state.components.forEach(comp => { ... })
RECURSIVE ComplexityOfEach(_, _, _)
ComplexityOfEach(comps, conns, c) ==
    IF Len(comps) = 0 THEN c
    ELSE LET comp     == Head(comps)
             incoming == Len(SelectSeq(conns, LAMBDA conn : conn.to = comp.id))
             outgoing == Len(SelectSeq(conns, LAMBDA conn : conn.from = comp.id))
         IN  ComplexityOfEach(Tail(comps), conns,
                 [c EXCEPT !.fanIn    = SetKey(@, FanKey(comp), incoming),
                           !.fanOut   = SetKey(@, FanKey(comp), outgoing),
                           !.coupling = @ + outgoing])

\* a / b of two numbers: the quotient as a fraction, NaN for 0 / 0
Quotient(a, b) == IF b = 0 THEN "NaN" ELSE [ num |-> a, den |-> b ]

calculateComplexity(comps, conns) ==
    LET c == ComplexityOfEach(comps, conns,
                 [ coupling |-> 0, cohesion |-> 0, fanIn |-> << >>, fanOut |-> << >> ])
    IN  [ coupling        |-> c.coupling,
          cohesion        |-> c.cohesion,
          fanIn           |-> c.fanIn,
          fanOut          |-> c.fanOut,
          averageCoupling |-> Quotient(c.coupling, Len(comps)) ]

\* click on 'Generate report'
GenerateReport ==
    /\ view = "loaded"
    /\ complexity' = calculateComplexity(components, connections)
    /\ view' = "report"
    /\ UNCHANGED << components, connections, cycles, maxPath >>
    /\ UNCHANGED << analyzerVars, editorVars >>

(***************************************************************************)
(* analyzeProjectCommand: progress reports, the analysis, the webview and  *)
(* the data transformProjectData sends to it                               *)
(***************************************************************************)
AlphaNumeric ==
    { (UpperChars \o LowerChars \o Digits)[i] : i \in 1..(26 + 26 + 10) }

\* s.replace(/[^a-zA-Z0-9]/g, '_')
ReplaceNonAlphaNumeric(s) ==
    [i \in 1..Len(s) |-> IF s[i] \in AlphaNumeric THEN s[i] ELSE "_"]

\* the fields of a component that the graph analyses read
ComponentOf(file) ==
    [ id   |-> ReplaceNonAlphaNumeric(file.path),
      name |-> file.name,
      file |-> file.path ]

ConnectionOf(dep) ==
    [ from |-> ReplaceNonAlphaNumeric(dep.from),
      to   |-> IF StartsWith(dep.to, DbPrefix) THEN dep.to
               ELSE ReplaceNonAlphaNumeric(dep.to) ]

transformProjectData(projectData) ==
    [ components  |-> [i \in 1..Len(projectData.files) |->
                          ComponentOf(projectData.files[i])],
      connections |-> [i \in 1..Len(projectData.dependencies) |->
                          ConnectionOf(projectData.dependencies[i])] ]

CommandPool == { ListingN, ListingM, ListingX, ListingA }

ReaddirOfCommand(dir) == ReaddirFrom(CommandPool, dir)

Report(increment, message) == [ increment |-> increment, message |-> message ]

\* the callback of withProgress runs to its await: the first report, then
\* analyzeProject is called
StartCommand ==
    /\ progress = << >>
    /\ progress' = << Report(10, "scanning files") >>
    /\ UNCHANGED << phase, calls, fileTree, files, depBatch, dependencies, fileCache,
                    result, outOfOrder, faults, cancelRequested, run >>
    /\ UNCHANGED << graphVars, editorVars >>

Started == Len(progress) > 0

\* analyzeProject has returned: the second report, createWebview (which sets
\* the timer of the loadData message) and the third report
AnalysisReturned ==
    /\ phase = "done"
    /\ Len(progress) = 1
    /\ progress' = progress \o << Report(50, "analysing dependencies"),
                                  Report(40, "diagram complete") >>
    /\ UNCHANGED << phase, calls, fileTree, files, depBatch, dependencies, fileCache,
                    result, outOfOrder, faults, cancelRequested, run >>
    /\ UNCHANGED << graphVars, editorVars >>

\* the timer posts { command: 'loadData', data: transformProjectData() } and
\* the webview calls loadProjectData
LoadProjectData ==
    /\ Len(progress) = 3
    /\ view = "empty"
    /\ components' = transformProjectData(result[1]).components
    /\ connections' = transformProjectData(result[1]).connections
    /\ view' = "loaded"
    /\ UNCHANGED << cycles, maxPath, complexity >>
    /\ UNCHANGED << analyzerVars, editorVars >>

NextCommand ==
    \/ StartCommand
    \/ Started /\ \E dir \in DOMAIN calls : ReaddirOfCommand(dir)
    \/ Started /\ \E dir \in DOMAIN calls : \E i \in calls[dir].pending : StatDone(dir, i)
    \/ Started /\ \E dir \in DOMAIN calls : \E i \in calls[dir].pending : DirTaskDone(dir, i)
    \/ Started /\ \E dir \in DOMAIN calls : BatchJoin(dir)
    \/ Started /\ ScanComplete
    \/ Started /\ \E k \in depBatch.pending : ExtractDone(k)
    \/ Started /\ DepsBatchJoin
    \/ AnalysisReturned
    \/ LoadProjectData
    \/ GenerateReport

SpecCommand == Init /\ [][NextCommand]_vars

(***************************************************************************)
(* The file preview and its editor: diagram.js and the getFileContent and  *)
(* saveFileContent handlers of the webview provider                        *)
(***************************************************************************)
\* most messages waiting in one direction
MaxMessages == 1

\* lines.slice(0, 1000).join('\n'), and the marker after a longer file
PreviewContent(lines) ==
    IF LineCount(lines) > PREVIEW_LINES
    THEN SliceLines(lines, PREVIEW_LINES)
         \o << Run("", 1), Run("... (file truncated for preview)", 1) >>
    ELSE SliceLines(lines, PREVIEW_LINES)

RemoveAt(seq, i) == SubSeq(seq, 1, i - 1) \o SubSeq(seq, i + 1, Len(seq))

\* a component is selected: showFilePreview asks for the content of the
\* component's file
ShowFilePreview(path) ==
    /\ Len(toExtension) < MaxMessages
    /\ toExtension' = Append(toExtension, [ command |-> "getFileContent", path |-> path ])
    /\ UNCHANGED << disk, editor, toWebview >>
    /\ UNCHANGED << analyzerVars, graphVars >>

\* the provider's getFileContent completes: the preview of the file, or the
\* error of the rejected readFile.  Handlers complete in any order.
GetFileContent(i) ==
    /\ i \in 1..Len(toExtension)
    /\ toExtension[i].command = "getFileContent"
    /\ Len(toWebview) < MaxMessages
    /\ LET path == toExtension[i].path
       IN  toWebview' = Append(toWebview,
               IF path \in DOMAIN disk
               THEN [ command |-> "fileContent",
                      content |-> PreviewContent(disk[path]), path |-> path ]
               ELSE [ command |-> "fileContent", content |-> Null, path |-> Undefined ])
    /\ toExtension' = RemoveAt(toExtension, i)
    /\ UNCHANGED << disk, editor >>
    /\ UNCHANGED << analyzerVars, graphVars >>

\* if (data.content): null and the empty string are falsy
IsTruthy(content) == content # Null /\ content # EmptyText

\* the webview handles 'fileContent': displayFileContent(message.data)
DisplayFileContent ==
    /\ Len(toWebview) > 0
    /\ LET data == Head(toWebview)
       IN  editor' = IF IsTruthy(data.content)
                     THEN [editor EXCEPT !.currentFileContent = data.content,
                                         !.currentFilePath = data.path,
                                         !.code = "content",
                                         !.textarea = data.content]
                     ELSE [editor EXCEPT !.code = "unable",
                                         !.textarea = EmptyText,
                                         !.failed = TRUE]
    /\ toWebview' = Tail(toWebview)
    /\ UNCHANGED << disk, toExtension >>
    /\ UNCHANGED << analyzerVars, graphVars >>

\* click on 'Edit'
EnableFileEdit ==
    /\ editor.mode = "view"
    /\ editor' = [editor EXCEPT !.mode = "edit"]
    /\ UNCHANGED << disk, toExtension, toWebview >>
    /\ UNCHANGED << analyzerVars, graphVars >>

\* the user types in the textarea
TypeText ==
    /\ editor.mode = "edit"
    /\ editor.textarea # TypedText
    /\ editor' = [editor EXCEPT !.textarea = TypedText, !.typed = TRUE]
    /\ UNCHANGED << disk, toExtension, toWebview >>
    /\ UNCHANGED << analyzerVars, graphVars >>

\* state.currentFileContent || ''
ContentOrEmpty(content) == IF content = Undefined \/ content = EmptyText THEN EmptyText ELSE content

\* click on 'Cancel'
CancelFileEdit ==
    /\ editor.mode = "edit"
    /\ editor' = [editor EXCEPT !.textarea = ContentOrEmpty(editor.currentFileContent),
                                !.mode = "view"]
    /\ UNCHANGED << disk, toExtension, toWebview >>
    /\ UNCHANGED << analyzerVars, graphVars >>

\* click on 'Save': the request is posted with state.currentFilePath, the
\* stored content and the display are updated, and cancelFileEdit switches
\* back to view mode
SaveFileContent ==
    /\ editor.mode = "edit"
    /\ Len(toExtension) < MaxMessages
    /\ LET newContent == editor.textarea
       IN  /\ toExtension' = Append(toExtension,
                   [ command |-> "saveFileContent",
                     path    |-> editor.currentFilePath,
                     content |-> newContent ])
           /\ editor' = [editor EXCEPT !.currentFileContent = newContent,
                                       !.code = "content",
                                       !.textarea = ContentOrEmpty(newContent),
                                       !.mode = "view"]
    /\ UNCHANGED << disk, toWebview >>
    /\ UNCHANGED << analyzerVars, graphVars >>

\* the provider's saveFileContent completes: the file is written, or
\* path.isAbsolute(undefined) throws and the catch shows the error
WriteFileContent(i) ==
    /\ i \in 1..Len(toExtension)
    /\ toExtension[i].command = "saveFileContent"
    /\ LET path == toExtension[i].path
       IN  disk' = IF path = Undefined THEN disk
                   ELSE [p \in DOMAIN disk \cup { path } |->
                            IF p = path THEN toExtension[i].content ELSE disk[p]]
    /\ toExtension' = RemoveAt(toExtension, i)
    /\ UNCHANGED << editor, toWebview >>
    /\ UNCHANGED << analyzerVars, graphVars >>

NextEditor ==
    \/ \E path \in PreviewPaths : ShowFilePreview(path)
    \/ \E i \in 1..Len(toExtension) : GetFileContent(i)
    \/ DisplayFileContent
    \/ EnableFileEdit
    \/ TypeText
    \/ CancelFileEdit
    \/ SaveFileContent
    \/ \E i \in 1..Len(toExtension) : WriteFileContent(i)

SpecEditor == Init /\ [][NextEditor]_vars

(***************************************************************************)
(* Properties of analyzeProject                                            *)
(***************************************************************************)
Done == phase = "done"

\* the returned ProjectStructure (when Done)
Returned == result[1]

RECURSIVE AllItems(_)
AllItems(tree) ==
    UNION { { tree[i] } \cup AllItems(tree[i].children) : i \in 1..Len(tree) }

Elements(seq) == { seq[i] : i \in 1..Len(seq) }

Occurrences(seq, x) == Cardinality({ j \in 1..Len(seq) : seq[j] = x })

IsFilePath(p) == p \in FileMapOf(files)

LayerOccurrences(layers, f) ==
    Occurrences(layers.presentation, f) + Occurrences(layers.business, f)
        + Occurrences(layers.data, f) + Occurrences(layers.utils, f)
        + Occurrences(layers.config, f)

\* C1: every file of the returned files[] is in exactly one of the five
\* layer lists: in no two of them, and not twice in one, and not in none.
C1_LayersPartitionFiles ==
    Done => \A i \in 1..Len(Returned.files) :
                LayerOccurrences(Returned.layers, Returned.files[i]) = 1

\* a workspace with a file that carries the signals of two layers, and with
\* three different layers in use
C1_Witness ==
    /\ Done
    /\ \E f \in Elements(Returned.files) : UtilsSignal(f) /\ ConfigSignal(f)
    /\ Len(Returned.layers.config) > 0
    /\ Len(Returned.layers.utils) > 0
    /\ Len(Returned.layers.data) > 0

\* C2: no two distinct elements of the returned dependencies[] have the same
\* (from, to, kind).
C2_DependenciesUnique ==
    Done => \A i, j \in 1..Len(Returned.dependencies) :
                i # j => Returned.dependencies[i] # Returned.dependencies[j]

\* the extractors produced the same edge more than once
C2_Witness ==
    /\ Done
    /\ \E i, j \in 1..Len(dependencies) : i # j /\ dependencies[i] = dependencies[j]

\* C3: referenceCount of every file is the number of returned dependencies
\* whose to is the file's path.
C3_ReferenceCountConsistent ==
    Done => \A f \in Elements(Returned.files) :
                f.referenceCount =
                    Cardinality({ j \in 1..Len(Returned.dependencies) :
                                      Returned.dependencies[j].to = f.path })

\* a file referenced twice, next to edges to synthetic targets
C3_Witness ==
    /\ Done
    /\ \E f \in Elements(Returned.files) : f.referenceCount >= 2
    /\ \E e \in Elements(Returned.dependencies) : ~IsFilePath(e.to)

\* C4: isUsed is false exactly for the files that are neither the from nor
\* the to of a returned dependency.
C4_UsageConsistent ==
    Done => \A f \in Elements(Returned.files) :
                (f.isUsed = FALSE) <=>
                    ~\E e \in Elements(Returned.dependencies) :
                         e.from = f.path \/ e.to = f.path

\* an unused file, and a used file all of whose edges go to synthetic targets
C4_Witness ==
    /\ Done
    /\ \E f \in Elements(Returned.files) : ~f.isUsed
    /\ \E f \in Elements(Returned.files) :
        /\ f.isUsed
        /\ \A e \in Elements(Returned.dependencies) :
               /\ e.to # f.path
               /\ e.from = f.path => ~IsFilePath(e.to)

\* directories before files, each group ascending by name
IsOrdered(list) ==
    \A i, j \in 1..Len(list) :
        i < j => /\ list[i].isDirectory \/ ~list[j].isDirectory
                 /\ list[i].isDirectory = list[j].isDirectory
                        => LocaleCompare(list[i].name, list[j].name) < 0

\* what a listing says the children of dir are
ExpectedChildren(dir) ==
    UNION { LET e == calls[dir].entries[i]
            IN  IF e.kind = "dir" /\ e.name \notin ignoreDirs /\ e.name[1] # "."
                THEN { DirItem(ChildPath(dir, e.name), e.name,
                               calls[ChildPath(dir, e.name)].result) }
                ELSE IF e.kind = "file"
                THEN { FileItem(ChildPath(dir, e.name), e.name) }
                ELSE {} : i \in 1..Len(calls[dir].entries) }

\* C5: the children list every invocation returns is ordered, directories
\* first and each group by name, and it is the one list the directory's
\* listing determines: whichever order the tasks of a batch resolved in.
C5_ChildrenOrderDeterministic ==
    /\ \A dir \in DOMAIN calls :
        calls[dir].st = "returned" =>
            /\ IsOrdered(calls[dir].result)
            /\ Elements(calls[dir].result) = ExpectedChildren(dir)
            /\ Len(calls[dir].result) = Cardinality(ExpectedChildren(dir))
    /\ phase # "scan" =>
            /\ fileTree = calls[RootPath].result
            /\ \A it \in AllItems(fileTree) :
                   it.isDirectory => it.children = calls[it.path].result

\* the root lists files before directories and names out of order, and some
\* task resolved before an earlier task of its batch
C5_Witness ==
    /\ Done
    /\ outOfOrder.scan
    /\ calls[RootPath].entries = ListingA
    /\ Len(fileTree) = 4

\* the edges the contents read determine, file by file
ExpectedEdges ==
    UNION { Elements(FileDeps(files[i], fileCache[files[i].path], FileMapOf(files))) :
            i \in 1..Len(files) }

\* C6: the returned edge set is the one the workspace's contents determine,
\* whichever order the extraction tasks of a batch resolved in.
C6_EdgeSetDeterministic ==
    Done => Elements(Returned.dependencies) = ExpectedEdges

\* two files contribute edges and a task resolved before an earlier one
C6_Witness ==
    /\ Done
    /\ outOfOrder.deps
    /\ \E e1, e2 \in Elements(Returned.dependencies) : e1.from # e2.from

\* the target the claim gives the edge of one specifier
SpecifierTarget(filePath, specifier, fileMap) ==
    LET relative == specifier[1] = "." \/ specifier[1] = "/"
        resolved == resolveImportPath(filePath, specifier)
        variants == getPathVariations(resolved)
        present  == { i \in 1..Len(variants) : variants[i] \in fileMap }
    IN  IF relative /\ present # {}
        THEN variants[CHOOSE i \in present : \A j \in present : i <= j]
        ELSE IF relative THEN MissingPrefix \o resolved
        ELSE ExternalPrefix \o specifier

ImportEdgesFrom(deps, filePath) ==
    { j \in 1..Len(deps) : deps[j].from = filePath /\ deps[j].type = T_import }

\* C8: for a JS/TS file, every captured specifier has exactly one import edge
\* in dependencies[], to the first existing variant, to [Missing] or to
\* [External]; and the file has no other import edge.
C8_OneImportEdgePerSpecifier ==
    Done => \A f \in Elements(Returned.files) :
                f.extension \in jsExtensions =>
                    LET specifiers == Elements(allMatches(fileCache[f.path]))
                        deps       == Returned.dependencies
                        targets    == { SpecifierTarget(f.path, s, FileMapOf(files)) :
                                        s \in specifiers }
                    IN  /\ \A t \in targets :
                               Cardinality({ j \in ImportEdgesFrom(deps, f.path) :
                                                 deps[j].to = t }) = 1
                        /\ \A j \in ImportEdgesFrom(deps, f.path) : deps[j].to \in targets

\* edges to an existing file, to a [Missing] and to an [External] target
C8_Witness ==
    /\ Done
    /\ \E e \in Elements(Returned.dependencies) : e.type = T_import /\ IsFilePath(e.to)
    /\ \E e \in Elements(Returned.dependencies) : StartsWith(e.to, MissingPrefix)
    /\ \E e \in Elements(Returned.dependencies) : StartsWith(e.to, ExternalPrefix)
    /\ \E e \in Elements(Returned.dependencies) :
           e.to = << "u", "i", "/", "i", "n", "d", "e", "x", ".", "t", "s" >>

\* a directory name the scan must not descend into
IsSkippedName(name) == name \in ignoreDirs \/ (Len(name) > 0 /\ name[1] = ".")

\* the directory names on the way to an item: all segments of a directory's
\* path, all but the last of a file's
DirectorySegments(path, isDirectory) ==
    LET segs == Split(path, Slash)
    IN  IF isDirectory THEN Elements(segs)
        ELSE Elements(SubSeq(segs, 1, Len(segs) - 1))

\* C9: no directory that is ignore-listed or hidden is read, and neither such
\* a directory nor anything below one is in fileTree or in files[].
C9_SkippedDirectoriesAbsent ==
    /\ \A dir \in DOMAIN calls \ { RootPath } :
           \A s \in DirectorySegments(dir, TRUE) : ~IsSkippedName(s)
    /\ \A it \in AllItems(fileTree) :
           \A s \in DirectorySegments(it.path, it.isDirectory) : ~IsSkippedName(s)
    /\ \A f \in Elements(files) :
           \A s \in DirectorySegments(f.path, FALSE) : ~IsSkippedName(s)

\* a directory below the root listed an ignore-listed or hidden directory,
\* and the scan went on to return files
C9_Witness ==
    /\ Done
    /\ Len(files) > 0
    /\ \E dir \in DOMAIN calls \ { RootPath } :
           \E e \in Elements(calls[dir].entries) : e.kind = "dir" /\ IsSkippedName(e.name)

\* C10 as stated: no entry of the fileTree has a name that begins with '.'.
C10_NoHiddenEntry ==
    \A it \in AllItems(fileTree) : ~StartsWith(it.name, << Dot >>)

\* C10 amended: no directory of the fileTree has a name that begins with
\* '.'; a regular file is kept whatever its name begins with.
C10_NoHiddenDirectory ==
    /\ \A it \in AllItems(fileTree) : it.isDirectory => ~StartsWith(it.name, << Dot >>)
    /\ phase # "scan" =>
           \A dir \in DOMAIN calls :
               \A e \in Elements(calls[dir].entries) :
                   e.kind = "file" =>
                       \E it \in AllItems(fileTree) :
                           it.path = ChildPath(dir, e.name) /\ ~it.isDirectory

\* the scan read a listing with a hidden directory and one with a hidden file
C10_Witness ==
    /\ Done
    /\ \E dir \in DOMAIN calls :
           \E e \in Elements(calls[dir].entries) :
               e.kind = "dir" /\ StartsWith(e.name, << Dot >>)
    /\ \E it \in AllItems(fileTree) : ~it.isDirectory /\ StartsWith(it.name, << Dot >>)


Ring == { Connection(IdA, IdB), Connection(IdB, IdC), Connection(IdC, IdA) }

NodeSet(cycle) == Elements(cycle.nodes)

\* C7: when the connections are those of the cycle a -> b -> c -> a, exactly
\* one cycle is reported, of the three components, whichever component the
\* search starts from; and for every graph, no two reported cycles have the
\* same nodes.
C7_OneCyclePerNodeSet ==
    view = "analysed" =>
        /\ Elements(connections) = Ring =>
               Len(cycles) = 1 /\ NodeSet(cycles[1]) = ComponentIds
        /\ \A i, j \in 1..Len(cycles) :
               i # j => NodeSet(cycles[i]) # NodeSet(cycles[j])

\* the three-node cycle with one connection listed twice, searched from b
C7_Witness ==
    /\ view = "analysed"
    /\ Elements(connections) = Ring
    /\ Len(connections) = 4
    /\ components[1].id = IdB
    /\ Len(cycles) = 1
    /\ cycles[1].nodes = << IdB, IdC, IdA >>


(***************************************************************************)
(* Properties of analyses with failing operations                          *)
(***************************************************************************)
RootReadFailed == << "readdir", RootPath >> \in faults

\* what analyzeProject returns for a workspace whose root has no entry
EmptyWorkspaceStructure == ProjectStructure(<< >>, << >>, << >>)

\* C11: when reading the root directory fails, the caller gets something
\* other than the result of a successful analysis of an empty workspace.
C11_RootFailureSurfaced ==
    (Done /\ RootReadFailed) => Returned # EmptyWorkspaceStructure


\* the files whose read or extraction failed
FailedFiles ==
    { f[2] : f \in { g \in faults : g[1] \in { "read", "extract" } } }

\* the edges the files without a failure determine
EdgesOfOtherFiles ==
    UNION { Elements(FileDeps(files[i], fileCache[files[i].path], FileMapOf(files))) :
            i \in { j \in 1..Len(files) : files[j].path \notin FailedFiles } }

\* C12: a file whose read or extraction failed contributes no edge, the
\* other files contribute the edges their contents determine, and the
\* analysis returns a ProjectStructure that lists the failed file too.
C12_FileFailureIsolated ==
    Done =>
        /\ \A e \in Elements(Returned.dependencies) : e.from \notin FailedFiles
        /\ Elements(Returned.dependencies) = EdgesOfOtherFiles
        /\ FailedFiles \subseteq FileMapOf(Returned.files)
        /\ Returned.stats.totalDependencies = Len(Returned.dependencies)

\* the extraction of a file with import statements failed, and another file
\* imports the failed file
C12_Witness ==
    /\ Done
    /\ \E g \in faults :
        /\ g[1] = "extract"
        /\ Len(allMatches(fileCache[g[2]])) > 0
        /\ \E e \in Elements(Returned.dependencies) : e.to = g[2]
    /\ \E e1, e2 \in Elements(Returned.dependencies) : e1.from # e2.from


\* the invocation whose listing has the entry that dir was scanned for
ParentOf(dir) ==
    CHOOSE p \in DOMAIN calls :
        \E i \in 1..Len(calls[p].entries) : ChildPath(p, calls[p].entries[i].name) = dir

FailedDirectories ==
    { g[2] : g \in { h \in faults : h[1] = "readdir" /\ h[2] # RootPath } }

\* C13: a directory below the root whose listing failed is in its parent's
\* children with an empty children list, and every invocation returns the
\* entries of its listing, as without the failure.
C13_DirectoryFailureIsolated ==
    /\ \A dir \in FailedDirectories :
           /\ calls[dir].result = << >>
           /\ calls[ParentOf(dir)].st = "returned" =>
                  \E it \in Elements(calls[ParentOf(dir)].result) :
                      /\ it.path = dir
                      /\ it.isDirectory
                      /\ it.children = << >>
    /\ \A dir \in DOMAIN calls :
           calls[dir].st = "returned" /\ << "readdir", dir >> \notin faults =>
               /\ Elements(calls[dir].result) = ExpectedChildren(dir)
               /\ Len(calls[dir].result) = Len(calls[dir].entries)
                      - Cardinality({ i \in 1..Len(calls[dir].entries) :
                                        \/ calls[dir].entries[i].kind = "other"
                                        \/ /\ calls[dir].entries[i].kind = "dir"
                                           /\ i \notin Descended(calls[dir].entries) })
    /\ Done => Returned.fileTree = calls[RootPath].result

\* the listing of a directory below the root failed; a sibling directory
\* has children and the root has files
C13_Witness ==
    /\ Done
    /\ \E dir \in FailedDirectories :
           \E it \in Elements(Returned.fileTree) : it.path = dir /\ it.children = << >>
    /\ \E it \in Elements(Returned.fileTree) : it.isDirectory /\ Len(it.children) > 0
    /\ \E it \in Elements(Returned.fileTree) : ~it.isDirectory


\* a step that starts a scan batch or an extraction batch
StartsBatch ==
    \/ \E dir \in DOMAIN calls' :
           /\ calls'[dir].st = "batch"
           /\ dir \notin DOMAIN calls \/ calls[dir].st # "batch"
                  \/ calls[dir].lo # calls'[dir].lo
    \/ /\ phase' = "deps"
       /\ depBatch'.pending # {}
       /\ phase # "deps" \/ depBatch'.lo # depBatch.lo

\* C14: once the host has asked for cancellation, no new scan batch and no
\* new extraction batch is started.
C14_NoBatchAfterCancel == [][cancelRequested => ~StartsBatch]_vars


\* the database types detected in a content: the type of every match
DetectedTypes(content) ==
    UNION { { DbTypeOf(content[i].ms[j].text) : j \in 1..Len(content[i].ms) } :
            i \in 1..Len(content) }

DbEdge(path, type) == Dep(path, DbPrefix \o type \o << "]" >>, T_database)

\* C15: for every file and every database type detected in its content there
\* is exactly one database edge from the file to [DB:type], and the file has
\* no other database edge.
C15_OneEdgePerDetectedType ==
    Done => \A f \in Elements(Returned.files) :
                LET deps     == Returned.dependencies
                    detected == DetectedTypes(fileCache[f.path])
                    own      == { j \in 1..Len(deps) :
                                      deps[j].from = f.path /\ deps[j].type = T_database }
                IN  /\ \A t \in detected :
                           Cardinality({ j \in own : deps[j] = DbEdge(f.path, t) }) = 1
                    /\ Cardinality(own) = Cardinality(detected)

\* a file with two detected types, one of them matched more than once, and
\* a file without a connection string
C15_Witness ==
    /\ Done
    /\ \E f \in Elements(Returned.files) :
        /\ Cardinality(DetectedTypes(fileCache[f.path])) = 2
        /\ Cardinality({ j \in 1..Len(dependencies) :
                             dependencies[j].from = f.path
                                 /\ dependencies[j].type = T_database }) > 2
    /\ \E f \in Elements(Returned.files) : DetectedTypes(fileCache[f.path]) = {}


\* the first layer, in the canonical order, whose signal the file matches;
\* without a match the fallback by extension
FirstMatchingLayer(f) ==
    IF PresentationSignal(f) THEN "presentation"
    ELSE IF BusinessSignal(f) THEN "business"
    ELSE IF DataSignal(f) THEN "data"
    ELSE IF UtilsSignal(f) THEN "utils"
    ELSE IF ConfigSignal(f) THEN "config"
    ELSE IF f.extension \in BackendExts THEN "business"
    ELSE "utils"

LayerNames == { "presentation", "business", "data", "utils", "config" }

C17_CachePerRun ==
    Done => DOMAIN fileCache = FileMapOf(Returned.files)


(***************************************************************************)
(* Properties of the batching                                              *)
(***************************************************************************)
\* the invocation for path and every invocation below it has returned
SubtreeFinished(path) ==
    \A p \in DOMAIN calls :
        (p = path \/ StartsWith(p, path \o << Slash >>)) => calls[p].st = "returned"

\* the last entry of the batch of ten that begins at lo
TenthFrom(dir, lo) == Min(lo + 9, Len(calls[dir].entries))

\* C18: while a batch of a directory is in flight, every entry of the
\* earlier batches has completed (a subdirectory with its whole subtree), and
\* no entry of a later batch has been started.
C18_ScanBatchesInSequence ==
    \A dir \in DOMAIN calls :
        calls[dir].st = "batch" =>
            LET call == calls[dir]
                hi   == TenthFrom(dir, call.lo)
            IN  /\ call.pending \subseteq call.lo..hi
                /\ \A i \in 1..Len(call.entries) :
                       LET child == ChildPath(dir, call.entries[i].name)
                       IN  /\ i > hi =>
                                /\ call.results[i] = << >>
                                /\ i \in Descended(call.entries) => child \notin DOMAIN calls
                           /\ ((i < call.lo \/ (i <= hi /\ i \notin call.pending))
                                    /\ i \in Descended(call.entries)) =>
                                child \in DOMAIN calls /\ SubtreeFinished(child)
                           /\ (i < call.lo /\ (i \in Descended(call.entries)
                                                   \/ call.entries[i].kind = "file")) =>
                                \E it \in Elements(call.items) : it.path = child

\* the second batch of a directory with twelve entries is in flight, with
\* the scan of a subdirectory of that batch under way and a subdirectory
\* scanned in the first batch
C18_Witness ==
    \E dir \in DOMAIN calls :
        /\ calls[dir].st = "batch"
        /\ calls[dir].lo = 11
        /\ \E i \in 1..10 : i \in Descended(calls[dir].entries)
        /\ \E i \in calls[dir].pending :
               /\ i \in Descended(calls[dir].entries)
               /\ calls[ChildPath(dir, calls[dir].entries[i].name)].st = "batch"


\* the fs.readdir calls and the fs.stat calls of file entries that have been
\* issued and have not resolved
InFlightOps ==
    Cardinality({ d \in DOMAIN calls : calls[d].st = "readdir" })
        + Cardinality(UNION { { << d, i >> : i \in { j \in calls[d].pending :
                                                       calls[d].entries[j].kind = "file" } } :
                              d \in { e \in DOMAIN calls : calls[e].st = "batch" } })

\* C19: at no time are more filesystem operations in flight than the two
\* (readdir and stat) that each of the ten tasks of one batch can issue.
C19_InFlightBounded == InFlightOps <= 2 * SCAN_BATCH_SIZE


\* the last file of the batch of twenty that begins at lo
TwentiethFrom(lo) == Min(lo + 19, Len(files))

UsageSet(f) == "isUsed" \in DOMAIN f /\ "referenceCount" \in DOMAIN f

\* C20: during dependency analysis at most twenty extraction tasks are in
\* flight, all of one batch; every file of the earlier batches has been read,
\* no file of a later batch has; and usage and reference counts are set only
\* when the last batch has finished.
C20_ExtractionBatchesInSequence ==
    /\ phase = "deps" =>
        /\ Cardinality(depBatch.pending) <= 20
        /\ depBatch.pending \subseteq depBatch.lo..TwentiethFrom(depBatch.lo)
        /\ \A k \in 1..Len(files) :
            /\ k > TwentiethFrom(depBatch.lo) =>
                   files[k].path \notin DOMAIN fileCache /\ depBatch.results[k] = << >>
            /\ k < depBatch.lo => files[k].path \in DOMAIN fileCache
            /\ ~UsageSet(files[k])
    /\ Done =>
        /\ \A k \in 1..Len(files) : UsageSet(files[k]) /\ files[k].path \in DOMAIN fileCache
        /\ depBatch.pending = {}
        /\ TwentiethFrom(depBatch.lo) = Len(files)

\* the second extraction batch is in flight, after tasks of the first batch
\* resolved out of order
C20_Witness ==
    /\ phase = "deps"
    /\ Len(files) = 21
    /\ depBatch.lo = 21
    /\ depBatch.pending = { 21 }
    /\ outOfOrder.deps
    /\ Len(dependencies) > 0

(***************************************************************************)
(* C21: order of the path variants                                         *)
(***************************************************************************)
\* the positions of the variants of a resolved path that the file map has
ExistingVariants(resolved, fileMap) ==
    LET candidates == << resolved >> \o [i \in 1..Len(VariationSuffixes) |->
                                            resolved \o VariationSuffixes[i]]
    IN  { i \in 1..Len(candidates) : candidates[i] \in fileMap }

\* the target the claim gives a relative specifier of file f
EarliestCandidate(f, specifier, fileMap) ==
    LET resolved   == resolveImportPath(f.path, specifier)
        candidates == << resolved >> \o [i \in 1..Len(VariationSuffixes) |->
                                            resolved \o VariationSuffixes[i]]
        present    == ExistingVariants(resolved, fileMap)
    IN  IF ExtName(resolved) # EmptyStr
        THEN IF resolved \in fileMap THEN resolved ELSE MissingPrefix \o resolved
        ELSE IF present = {} THEN MissingPrefix \o resolved
        ELSE candidates[CHOOSE i \in present : \A j \in present : i <= j]

\* C21: the import edge of a relative specifier targets the earliest existing
\* candidate in the order path, path + .ts ... .sql, path + /index.ts ...
\* /index.html when the resolved path has no extension, and only the path
\* itself is tried when it has one.
C21_EarliestVariantWins ==
    Done => \A f \in Elements(Returned.files) :
                f.extension \in jsExtensions =>
                    LET fileMap  == FileMapOf(Returned.files)
                        relative == { s \in Elements(allMatches(fileCache[f.path])) :
                                          s[1] = "." \/ s[1] = "/" }
                        edges    == { e \in Elements(Returned.dependencies) :
                                          e.from = f.path /\ e.type = T_import }
                    IN  /\ \A s \in relative :
                               \E e \in edges : e.to = EarliestCandidate(f, s, fileMap)
                        /\ \A e \in edges :
                               e.to \in fileMap =>
                                   \E s \in relative : e.to = EarliestCandidate(f, s, fileMap)

\* v.tsx imports './a' while a.ts, a.css and a/index.ts exist, and './a.d'
\* while a.d.ts exists: the edges go to a.ts and to [Missing] a.d
C21_Witness ==
    /\ Done
    /\ Cardinality(ExistingVariants(<< "a" >>, FileMapOf(Returned.files))) = 3
    /\ << "a", ".", "d", ".", "t", "s" >> \in FileMapOf(Returned.files)
    /\ \E e \in Elements(Returned.dependencies) :
           e.from = << "v", ".", "t", "s", "x" >> /\ e.to = << "a", ".", "t", "s" >>
    /\ \E e \in Elements(Returned.dependencies) :
           e.from = << "v", ".", "t", "s", "x" >>
           /\ e.to = MissingPrefix \o << "a", ".", "d" >>

(***************************************************************************)
(* C22: reported cycles are cycles of the connection graph                 *)
(***************************************************************************)
HasConnection(from, to) ==
    \E i \in 1..Len(connections) : connections[i].from = from /\ connections[i].to = to

\* nodes are pairwise distinct, each has a connection to the next one and the
\* last one has a connection to the first
IsDirectedCycle(nodes) ==
    /\ Len(nodes) > 0
    /\ \A i, j \in 1..Len(nodes) : i # j => nodes[i] # nodes[j]
    /\ \A i \in 1..Len(nodes) : HasConnection(nodes[i], nodes[(i % Len(nodes)) + 1])

\* C22: every reported cycle is a directed cycle of the connection graph
\* with pairwise distinct nodes; its connections list follows its nodes and
\* closes on the first node, the one the search revisited; no synthetic
\* target occurs in it.
C22_ReportedCyclesGenuine ==
    view = "analysed" =>
        \A k \in 1..Len(cycles) :
            LET nodes == cycles[k].nodes
                n     == Len(nodes)
            IN  /\ IsDirectedCycle(nodes)
                /\ Len(cycles[k].connections) = n
                /\ \A i \in 1..n : cycles[k].connections[i].from = nodes[i]
                /\ \A i \in 1..(n - 1) : cycles[k].connections[i].to = nodes[i + 1]
                /\ cycles[k].connections[n].to = nodes[1]
                /\ NodeSet(cycles[k]) \cap SyntheticIds = {}
                /\ NodeSet(cycles[k]) \subseteq ComponentIds

\* the search starts at c and follows c -> a -> b -> a: the cycle a -> b -> a
\* is reported without c; a synthetic target is among the connections
C22_Witness ==
    /\ view = "analysed"
    /\ components[1].id = IdC
    /\ \E k \in 1..Len(cycles) : cycles[k].nodes = << IdA, IdB >>
    /\ \E i \in 1..Len(connections) : connections[i].to \in SyntheticIds
    /\ HasConnection(IdC, IdA)

(***************************************************************************)
(* C23: the critical path                                                  *)
(***************************************************************************)
Last(seq) == seq[Len(seq)]

\* the simple paths that have one node more than the paths given
Extended(paths) ==
    UNION { { Append(p, connections[i].to) :
                i \in { k \in 1..Len(connections) :
                            /\ connections[k].from = Last(p)
                            /\ connections[k].to \notin Elements(p) } } :
            p \in paths }

\* the simple paths of n nodes that start at a component
RECURSIVE SimplePathsOf(_)
SimplePathsOf(n) ==
    IF n = 1 THEN { << components[i].id >> : i \in 1..Len(components) }
    ELSE Extended(SimplePathsOf(n - 1))

\* no simple path has more nodes than the graph has
NodeCount == Cardinality(ComponentIds \cup SyntheticIds)

LongestLength == CHOOSE n \in 1..NodeCount :
                     SimplePathsOf(n) # {} /\ \A m \in (n + 1)..NodeCount : SimplePathsOf(m) = {}

\* where the search meets a path: the index of its first component, then the
\* index of the first connection that makes each step
SearchKey(p) ==
    << CHOOSE i \in 1..Len(components) : components[i].id = p[1] >>
    \o [ s \in 1..(Len(p) - 1) |->
           CHOOSE i \in 1..Len(connections) :
               /\ connections[i].from = p[s] /\ connections[i].to = p[s + 1]
               /\ \A j \in 1..(i - 1) :
                      ~(connections[j].from = p[s] /\ connections[j].to = p[s + 1]) ]

\* lexicographic order of keys of the same length
KeyBefore(a, b) ==
    \E k \in 1..Len(a) : a[k] < b[k] /\ \A j \in 1..(k - 1) : a[j] = b[j]

HasProperEdge == \E i \in 1..Len(connections) : connections[i].from # connections[i].to

\* C23: when a connection joins two distinct nodes, showCriticalPath reports
\* a simple path whose reported length is its number of nodes, the maximum
\* over the simple paths that start at a component, and among the paths of
\* that length the one the search meets first.
C23_CriticalPathLongest ==
    (view = "path" /\ HasProperEdge) =>
        /\ maxPath.length = Len(maxPath.path)
        /\ maxPath.path \in SimplePathsOf(maxPath.length)
        /\ maxPath.length = LongestLength
        /\ \A p \in SimplePathsOf(maxPath.length) :
               p # maxPath.path => KeyBefore(SearchKey(maxPath.path), SearchKey(p))

\* two paths of three nodes exist, and the one reported does not start at
\* the first component
C23_Witness ==
    /\ view = "path"
    /\ maxPath.length = 3
    /\ Cardinality(SimplePathsOf(3)) >= 2
    /\ maxPath.path[1] # components[1].id
    /\ \E i \in 1..3 : maxPath.path[i] \in SyntheticIds

(***************************************************************************)
(* C24: fan-in, fan-out and coupling of the report                         *)
(***************************************************************************)
FanInOf(comp) ==
    Cardinality({ i \in 1..Len(connections) : connections[i].to = comp.id })

FanOutOf(comp) ==
    Cardinality({ i \in 1..Len(connections) : connections[i].from = comp.id })

RECURSIVE SumOfFanOut(_)
SumOfFanOut(n) == IF n = 0 THEN 0 ELSE SumOfFanOut(n - 1) + FanOutOf(components[n])

\* C24: the report holds, for every component, the number of connections
\* whose to is the component as its fan-in and the number whose from is the
\* component as its fan-out, also when two components have the same file
\* name; coupling is the sum of the fan-outs and averageCoupling is the
\* coupling divided by the number of components.
C24_FanPerComponent ==
    (view = "report" /\ Len(components) > 0) =>
        /\ \A i \in 1..Len(components) :
               /\ complexity.fanIn[components[i].name] = FanInOf(components[i])
               /\ complexity.fanOut[components[i].name] = FanOutOf(components[i])
        /\ complexity.coupling = SumOfFanOut(Len(components))
        /\ complexity.averageCoupling =
               [ num |-> complexity.coupling, den |-> Len(components) ]

\* the same under the condition that no two components have the same name
C24_FanPerDistinctName ==
    (\A i, j \in 1..Len(components) :
         i # j => components[i].name # components[j].name)
    => C24_FanPerComponent

(***************************************************************************)
(* C25: progress reports                                                   *)
(***************************************************************************)
\* C25: at most three progress events are emitted, the first only after the
\* scan has finished, the second only after the dependency analysis has
\* finished, the third only after the structure has been assembled; and the
\* webview is created with all three emitted.
C25_ProgressAfterPhases ==
    /\ Len(progress) <= 3
    /\ Len(progress) >= 1 => phase # "scan"
    /\ Len(progress) >= 2 => phase = "done"
    /\ Len(progress) >= 3 => result # << >>
    /\ view # "empty" => Len(progress) = 3

\* what holds of the three reports: their number, their order, and that the
\* second and the third come after analyzeProject has returned
C25_ThreeReportsInOrder ==
    /\ Len(progress) <= 3
    /\ \A i \in 1..Len(progress) : progress[i].increment = << 10, 50, 40 >>[i]
    /\ Len(progress) >= 2 => Len(progress) = 3 /\ phase = "done" /\ result # << >>
    /\ view # "empty" => Len(progress) = 3

\* the first report is out while the scan has not read the root directory
C25_ReportBeforeScan ==
    /\ Len(progress) = 1
    /\ phase = "scan"
    /\ calls[RootPath].st = "readdir"

(***************************************************************************)
(* C26: a cycle is reported exactly when the graph has one                 *)
(***************************************************************************)
\* the nodes one connection away from a node of the set
Successors(nodes) ==
    { connections[i].to : i \in { k \in 1..Len(connections) : connections[k].from \in nodes } }

\* the nodes reached from a node by one connection or more
RECURSIVE ReachedWithin(_, _)
ReachedWithin(nodes, steps) ==
    IF steps = 0 THEN nodes
    ELSE ReachedWithin(nodes \cup Successors(nodes), steps - 1)

ReachedFrom(node) == ReachedWithin(Successors({ node }), NodeCount)

\* a directed cycle, a self-loop included, through a component
GraphHasCycle ==
    \E i \in 1..Len(components) : components[i].id \in ReachedFrom(components[i].id)

\* C26: findCircularDependencies reports at least one cycle if and only if
\* the connection graph has a directed cycle (a self-loop included); on an
\* acyclic graph it reports none, in whatever order the components and the
\* connections are listed.
C26_CycleReportedIffPresent ==
    view = "analysed" => (Len(cycles) > 0 <=> GraphHasCycle)

\* the self-import is the only cycle of a graph of three connections or more
C26_Witness ==
    /\ view = "analysed"
    /\ Len(connections) >= 3
    /\ Cardinality(Elements(connections)) >= 3
    /\ Len(cycles) = 1
    /\ cycles[1].nodes = << IdA >>
    /\ components[1].id # IdA

\* an acyclic graph in which the search meets c a second time
C26_AcyclicWitness ==
    /\ view = "analysed"
    /\ HasConnection(IdB, IdA) /\ HasConnection(IdB, IdC) /\ HasConnection(IdC, IdA)
    /\ ~GraphHasCycle
    /\ cycles = << >>

(***************************************************************************)
(* C27: a failing stat                                                     *)
(***************************************************************************)
\* the paths whose stat failed
FailedStats == { f[2] : f \in { g \in faults : g[1] = "stat" } }

\* the entries of a listing that the scan makes an item of
ItemEntries(dir) ==
    { i \in 1..Len(calls[dir].entries) :
          \/ calls[dir].entries[i].kind = "file"
          \/ i \in Descended(calls[dir].entries) }

ItemPaths(dir) == { it.path : it \in Elements(calls[dir].result) }

\* C27: when the stat of an entry of a directory failed, every other entry
\* of that directory, of the same batch and of later batches, is an item of
\* the directory's result, and the failing entry is not.
C27_StatFailureIsolated ==
    Done => \A p \in FailedStats :
                LET dir == ParentOf(p)
                IN  \A i \in ItemEntries(dir) :
                        LET path == ChildPath(dir, calls[dir].entries[i].name)
                        IN  path \in ItemPaths(dir) <=> path # p

\* what holds: the failing entry is missing, and the entries of the batches
\* before the failing one are items
C27_EarlierBatchesKept ==
    Done => \A p \in FailedStats :
                LET dir    == ParentOf(p)
                    failed == CHOOSE i \in ItemEntries(dir) :
                                  ChildPath(dir, calls[dir].entries[i].name) = p
                    batch  == (failed - 1) \div SCAN_BATCH_SIZE
                IN  \A i \in ItemEntries(dir) :
                        ChildPath(dir, calls[dir].entries[i].name) \in ItemPaths(dir)
                            <=> (i - 1) \div SCAN_BATCH_SIZE < batch

\* the stat of Y.py, of the second batch, failed: lib and z.ts are kept, src is not
C27_LaterBatchWitness ==
    /\ Done
    /\ FailedStats = { << "Y", ".", "p", "y" >> }
    /\ ItemPaths(RootPath) = { << "l", "i", "b" >>, << "z", ".", "t", "s" >> }

(***************************************************************************)
(* C28: component ids                                                      *)
(***************************************************************************)
ComponentsWithId(id) == { i \in 1..Len(components) : components[i].id = id }

\* C28: the components of distinct file paths have distinct ids, and the
\* from of every connection is the id of exactly one component.
C28_ComponentIdsDistinct ==
    (view = "loaded" /\ Len(progress) = 3) =>
        /\ \A i, j \in 1..Len(components) :
               components[i].file # components[j].file
                   => components[i].id # components[j].id
        /\ \A k \in 1..Len(connections) :
               Cardinality(ComponentsWithId(connections[k].from)) = 1

\* what holds: the from of every connection is the id of a component, and
\* the components are the files of the analysis, one each, in their order
C28_OneComponentPerFile ==
    (view = "loaded" /\ Len(progress) = 3) =>
        /\ Len(components) = Len(Returned.files)
        /\ \A i \in 1..Len(components) : components[i].file = Returned.files[i].path
        /\ \A k \in 1..Len(connections) : ComponentsWithId(connections[k].from) # {}

\* a/x.jsx and a_x.jsx are components with the one id a_x_jsx
C28_CollisionWitness ==
    /\ view = "loaded"
    /\ Len(components) = 2
    /\ components[1].file = << "a", "/", "x", ".", "j", "s", "x" >>
    /\ components[2].file = << "a", "_", "x", ".", "j", "s", "x" >>
    /\ components[1].id = components[2].id

(***************************************************************************)
(* C29, C30: the preview editor                                            *)
(***************************************************************************)
\* C29: as long as the user has typed nothing and every response was shown
\* as content, whatever was loaded, edited and saved, every file on disk has
\* its original content.
C29_RoundTripKeepsFile ==
    (~editor.typed /\ ~editor.failed) => disk = InitialDisk

\* the same for the files that the preview holds in full
C29_ShortFileKept ==
    (~editor.typed /\ ~editor.failed) =>
        \A p \in DOMAIN InitialDisk :
            LineCount(InitialDisk[p]) <= PREVIEW_LINES => disk[p] = InitialDisk[p]

\* long.ts after the round trip: its first 1000 lines and the marker
C29_TruncatedOnDisk ==
    /\ ~editor.typed /\ ~editor.failed
    /\ disk["long.ts"] = PreviewContent(LongText)
    /\ disk["long.ts"] # LongText
    /\ toExtension = << >>

\* the step posts a saveFileContent request
SavePosted ==
    /\ Len(toExtension') = Len(toExtension) + 1
    /\ toExtension'[Len(toExtension')].command = "saveFileContent"

\* C30: a save writes only to the file whose content the editor shows: when
\* the preview shows 'Unable to load file content.' (the last response was
\* an error or empty), a save request names no file.
C30_SaveNamesShownFile ==
    [][(SavePosted /\ editor.code = "unable")
           => toExtension'[Len(toExtension')].path = Undefined]_vars

\* what holds: a save request names the file of the last response that was
\* shown as content, whatever has been asked for or shown since
C30_SaveNamesLastLoaded ==
    [][SavePosted => toExtension'[Len(toExtension')].path = editor.currentFilePath]_vars

\* short.ts was loaded, gone.ts could not be loaded, and without a key typed
\* short.ts has been written as the empty string
C30_OtherFileOverwritten ==
    /\ ~editor.typed
    /\ editor.code = "content"
    /\ editor.currentFilePath = "short.ts"
    /\ disk["short.ts"] = EmptyText
    /\ disk["empty.ts"] = EmptyText /\ disk["long.ts"] = LongText
    /\ toExtension = << >> /\ toWebview = << >>

=============================================================================
